---- MODULE Spec2Model ----
(***************************************************************************)
(* Confluence roundtrip editing and single-purpose page scripts            *)
(* (plugins/confluence/skills/confluence/scripts).                         *)
(*                                                                         *)
(* Representation.                                                         *)
(*  - A Python str is a sequence of one-character strings; a few runs of   *)
(*    letters that the code only copies ("MACRO:", a macro identifier) are *)
(*    kept as one atomic, non-blank character.                             *)
(*  - An ADF node (a Python dict) is a record that has exactly the keys    *)
(*    the dict has: "type", "attrs", "content", "text".  A content key     *)
(*    whose value is not a list is the key "content_scalar".               *)
(*  - A JSON path "content.0.content.1.text" is the sequence of its parts  *)
(*    <<"content","0","content","1","text">> (str.split(".") of the        *)
(*    joined string; no part holds a dot).                                 *)
(***************************************************************************)
EXTENDS Integers, Sequences, FiniteSets, TLC

(***************************************************************************)
(* Bounds of the model                                                     *)
(***************************************************************************)
\* longest run of text nodes in one paragraph
MaxRun == 2
\* most top-level blocks of a document built from the simple blocks
MaxBlocks == 2
\* most lines of an edited markdown typed in by the editor
MaxLines == 2
\* most create_backup calls of a run of the backup manager
MaxBackups == 12
\* most invocations of a script, or of edit_page, in a run
MaxInvocations == 2
\* most updates of the page by other writers in a run
MaxOtherWrites == 2

(***************************************************************************)
(* Python str operations                                                   *)
(***************************************************************************)
NL == "\n"

\* str.isspace() of one character
IsSpace(c) == c \in {" ", NL}

RECURSIVE LStrip(_)
LStrip(s) ==
    IF s = <<>> THEN s
    ELSE IF IsSpace(Head(s)) THEN LStrip(Tail(s)) ELSE s

RECURSIVE RStrip(_)
RStrip(s) ==
    IF s = <<>> THEN s
    ELSE IF IsSpace(s[Len(s)]) THEN RStrip(SubSeq(s, 1, Len(s) - 1)) ELSE s

\* str.strip()
Strip(s) == RStrip(LStrip(s))

LowerChar(c) ==
    CASE c = "A" -> "a"
      [] c = "B" -> "b"
      [] c = "C" -> "c"
      [] OTHER -> c

\* str.lower()
Lower(s) == [i \in 1..Len(s) |-> LowerChar(s[i])]

\* the longest prefix of s without a character of seps
RECURSIVE TakeUntil(_, _)
TakeUntil(s, seps) ==
    IF s = <<>> \/ Head(s) \in seps THEN <<>>
    ELSE <<Head(s)>> \o TakeUntil(Tail(s), seps)

\* str.split(sep) for a one-character separator: empty fields are kept
RECURSIVE SplitOn(_, _)
SplitOn(s, sep) ==
    LET first == TakeUntil(s, {sep})
    IN  IF Len(first) = Len(s) THEN <<first>>
        ELSE <<first>> \o SplitOn(SubSeq(s, Len(first) + 2, Len(s)), sep)

\* set(str.split()): the set of the maximal runs of non-blank characters
RECURSIVE WordSet(_)
WordSet(s) ==
    LET t == LStrip(s)
        w == TakeUntil(t, {" ", NL})
    IN  IF t = <<>> THEN {}
        ELSE {w} \cup WordSet(SubSeq(t, Len(w) + 1, Len(t)))

\* sep.join(parts)
RECURSIVE Join(_, _)
Join(parts, sep) ==
    IF parts = <<>> THEN <<>>
    ELSE IF Len(parts) = 1 THEN parts[1]
    ELSE parts[1] \o sep \o Join(Tail(parts), sep)

\* "".join(parts)
RECURSIVE Concat(_)
Concat(parts) ==
    IF parts = <<>> THEN <<>> ELSE Head(parts) \o Concat(Tail(parts))

StartsWith(s, p) == Len(s) >= Len(p) /\ SubSeq(s, 1, Len(p)) = p

\* c * n
Repeat(c, n) == [i \in 1..n |-> c]

DigitStr == <<"0", "1", "2", "3", "4", "5", "6", "7", "8", "9">>

\* str(i) for 0 <= i <= 9
ToStr(i) == DigitStr[i + 1]

\* part.isdigit()
IsDigit(p) == \E i \in 1..Len(DigitStr) : DigitStr[i] = p

\* int(part)
ToInt(p) == (CHOOSE i \in 1..Len(DigitStr) : DigitStr[i] = p) - 1

(***************************************************************************)
(* ADF nodes                                                               *)
(***************************************************************************)
Has(node, key) == key \in DOMAIN node

\* node.get("attrs", {})
AttrsOf(node) == IF Has(node, "attrs") THEN node.attrs ELSE <<>>

\* isinstance(node.get("content"), list)
HasContentList(node) == Has(node, "content")

\* node.get("content", []) of a node whose content, if any, is a list
ContentOf(node) == IF Has(node, "content") THEN node.content ELSE <<>>

TextNode(t) == [type |-> "text", text |-> t]

Paragraph(children) == [type |-> "paragraph", content |-> children]

Heading(level, children) ==
    [type |-> "heading", attrs |-> [level |-> level], content |-> children]

Doc(blocks) == [type |-> "doc", content |-> blocks]

MACRO_NODE_TYPES ==
    {"inlineExtension", "extension", "bodiedExtension", "panel", "expand"}

\* the test both the extractor and the converter apply to every node
IsMacro(node) ==
    \/ node.type \in MACRO_NODE_TYPES
    \/ "extensionKey" \in DOMAIN AttrsOf(node)
    \/ "panelType" \in DOMAIN AttrsOf(node)

(***************************************************************************)
(* ADFTextExtractor.extract_text_nodes                                     *)
(***************************************************************************)
\* skip_macro_bodies is ignored: the subtree of a macro is always walked
RECURSIVE extract_ignoring_mode(_, _, _, _)
extract_ignoring_mode(node, path, inside_macro, skip_macro_bodies) ==
    LET own ==
            IF node.type = "text" /\ Strip(node.text) # <<>>
            THEN <<[path |-> path \o <<"text">>, text |-> node.text]>>
            ELSE <<>>
        kids == ContentOf(node)
        sub[i \in 0..Len(kids)] ==
            IF i = 0 THEN <<>>
            ELSE sub[i - 1] \o
                 extract_ignoring_mode(kids[i], path \o <<"content", ToStr(i - 1)>>,
                                       inside_macro, skip_macro_bodies)
    IN  own \o sub[Len(kids)]

\* the children are numbered from one in the paths
RECURSIVE extract_one_based(_, _, _, _)
extract_one_based(node, path, inside_macro, skip_macro_bodies) ==
    LET is_macro == IsMacro(node)
        own ==
            IF /\ node.type = "text"
               /\ ~(inside_macro /\ skip_macro_bodies)
               /\ Strip(IF Has(node, "text") THEN node.text ELSE <<>>) # <<>>
            THEN <<[path |-> path \o <<"text">>, text |-> node.text]>>
            ELSE <<>>
        kids == ContentOf(node)
        sub[i \in 0..Len(kids)] ==
            IF i = 0 THEN <<>>
            ELSE sub[i - 1] \o
                 extract_one_based(kids[i], path \o <<"content", ToStr(i)>>,
                                   is_macro \/ inside_macro, skip_macro_bodies)
    IN  IF is_macro /\ skip_macro_bodies THEN <<>>
        ELSE own \o (IF HasContentList(node) THEN sub[Len(kids)] ELSE <<>>)

\* _extract_recursive: the list of TextNode records appended for the node
RECURSIVE extract_recursive(_, _, _, _)
extract_recursive(node, path, inside_macro, skip_macro_bodies) ==
    LET is_macro == IsMacro(node)
        own ==
            IF /\ node.type = "text"
               /\ ~(inside_macro /\ skip_macro_bodies)
               /\ Strip(IF Has(node, "text") THEN node.text ELSE <<>>) # <<>>
            THEN <<[path |-> path \o <<"text">>, text |-> node.text]>>
            ELSE <<>>
        kids == ContentOf(node)
        sub[i \in 0..Len(kids)] ==
            IF i = 0 THEN <<>>
            ELSE sub[i - 1] \o
                 extract_recursive(kids[i], path \o <<"content", ToStr(i - 1)>>,
                                   is_macro \/ inside_macro, skip_macro_bodies)
    IN  IF is_macro /\ skip_macro_bodies THEN <<>>
        ELSE own \o (IF HasContentList(node) THEN sub[Len(kids)] ELSE <<>>)

extract_text_nodes(adf, skip_macro_bodies) ==
    extract_recursive(adf, <<>>, FALSE, skip_macro_bodies)

(***************************************************************************)
(* SimpleMarkdownConverter                                                 *)
(***************************************************************************)
\* _extract_text: all the text of a node and its children, concatenated
RECURSIVE extract_text(_)
extract_text(node) ==
    IF node.type = "text" THEN (IF Has(node, "text") THEN node.text ELSE <<>>)
    ELSE LET kids == ContentOf(node)
         IN  Concat([i \in 1..Len(kids) |-> extract_text(kids[i])])

\* attrs.get("extensionKey") or attrs.get("panelType") or node_type
MacroId(node) ==
    LET attrs == AttrsOf(node)
    IN  IF "extensionKey" \in DOMAIN attrs THEN attrs.extensionKey
        ELSE IF "panelType" \in DOMAIN attrs THEN attrs.panelType
        ELSE node.type

\* f"\n<!-- MACRO: {macro_id} -->\n"
MacroPlaceholder(node) ==
    <<NL, "<", "!", "-", "-", " ", "MACRO:", " ", MacroId(node), " ", "-", "-", ">", NL>>

\* the backquote character
BQ == "BQ"

Fence == <<BQ, BQ, BQ>>

\* _convert_list: one line per item, then a blank line
convert_list(node, ordered) ==
    LET items == ContentOf(node)
    IN  [i \in 1..Len(items) |->
            (IF ordered THEN <<ToStr(i), ".">> ELSE <<"-">>)
            \o <<" ">> \o extract_text(items[i])]
        \o << <<>> >>

\* _convert_recursive: the lines appended for the node
RECURSIVE convert_recursive(_, _, _)
convert_recursive(node, inside_macro, include_macro_bodies) ==
    LET is_macro == IsMacro(node)
        attrs == AttrsOf(node)
        text == extract_text(node)
        kids == ContentOf(node)
        children(flag) ==
            Concat([i \in 1..Len(kids) |->
                       convert_recursive(kids[i], flag, include_macro_bodies)])
        body ==
            CASE node.type = "heading" ->
                   << Repeat("#", IF "level" \in DOMAIN attrs THEN attrs.level ELSE 1)
                      \o <<" ">> \o text >>
              [] node.type = "paragraph" ->
                   IF Strip(text) # <<>> THEN <<text, <<>>>> ELSE <<>>
              [] node.type = "bulletList" -> convert_list(node, FALSE)
              [] node.type = "orderedList" -> convert_list(node, TRUE)
              [] node.type = "codeBlock" ->
                   << Fence \o (IF "language" \in DOMAIN attrs THEN attrs.language ELSE <<>>),
                      text, Fence, <<>> >>
              [] node.type = "blockquote" ->
                   LET ls == SplitOn(text, NL)
                   IN  [i \in 1..Len(ls) |-> <<">", " ">> \o ls[i]] \o << <<>> >>
              [] node.type = "doc" -> children(inside_macro)
              [] OTHER ->
                   IF Has(node, "content") THEN children(is_macro \/ inside_macro)
                   ELSE <<>>
    IN  IF is_macro
        THEN IF ~include_macro_bodies THEN <<MacroPlaceholder(node)>>
             ELSE <<MacroPlaceholder(node)>> \o body
        ELSE body

\* convert_to_markdown: "\n".join(lines)
convert_to_markdown(adf, include_macro_bodies) ==
    Join(convert_recursive(adf, FALSE, include_macro_bodies), <<NL>>)

(***************************************************************************)
(* TextDiffer._extract_text_from_markdown                                  *)
(***************************************************************************)
\* the number of leading characters of s that lie in cs
RECURSIVE LeadRun(_, _)
LeadRun(s, cs) ==
    IF s = <<>> \/ Head(s) \notin cs THEN 0 ELSE 1 + LeadRun(Tail(s), cs)

\* drop n leading characters and the whitespace run after them, when that run
\* is not empty: re.sub(r"^<n characters>\s+", "", line)
DropMarker(line, n) ==
    IF Len(line) > n /\ IsSpace(line[n + 1])
    THEN LStrip(SubSeq(line, n + 1, Len(line)))
    ELSE line

\* re.sub(r"^#{1,6}\s+", "", line)
StripHeader(line) ==
    LET n == LeadRun(line, {"#"})
    IN  IF n >= 1 /\ n <= 6 THEN DropMarker(line, n) ELSE line

\* re.sub(r"^[-*+]\s+", "", line)
StripBullet(line) ==
    IF line # <<>> /\ Head(line) \in {"-", "*", "+"} THEN DropMarker(line, 1) ELSE line

\* re.sub(r"^\d+\.\s+", "", line)
StripNumber(line) ==
    LET n == LeadRun(line, {DigitStr[i] : i \in 1..Len(DigitStr)})
    IN  IF n >= 1 /\ Len(line) > n /\ line[n + 1] = "."
        THEN DropMarker(line, n + 1)
        ELSE line

\* re.sub(r"^>\s+", "", line)
StripQuote(line) ==
    IF line # <<>> /\ Head(line) = ">" THEN DropMarker(line, 1) ELSE line

\* s has the delimiter d at position i
At(s, i, d) == i >= 1 /\ i + Len(d) - 1 <= Len(s) /\ SubSeq(s, i, i + Len(d) - 1) = d

\* re.sub(d(.+?)d, r"\1", s): leftmost, non-greedy, non-overlapping
RECURSIVE StripInline(_, _)
StripInline(s, d) ==
    LET k == Len(d)
        closes(i) == {j \in (i + k + 1)..Len(s) : At(s, j, d)}
        opens == {i \in 1..Len(s) : At(s, i, d) /\ closes(i) # {}}
    IN  IF opens = {} THEN s
        ELSE LET i == CHOOSE a \in opens : \A b \in opens : a <= b
                 j == CHOOSE a \in closes(i) : \A b \in closes(i) : a <= b
             IN  SubSeq(s, 1, i - 1) \o SubSeq(s, i + k, j - 1)
                 \o StripInline(SubSeq(s, j + k, Len(s)), d)

\* one line of the markdown: <<>> when the line is skipped
clean_line(raw) ==
    LET line == Strip(raw)
        l1 == StripQuote(StripNumber(StripBullet(StripHeader(line))))
        l2 == StripInline(StripInline(StripInline(l1, <<"*", "*">>), <<"*">>), <<BQ>>)
    IN  IF line = <<>> \/ StartsWith(line, <<"<", "!", "-", "-">>) THEN <<>>
        ELSE IF StartsWith(l1, Fence) THEN <<>>
        ELSE l2

extract_text_from_markdown(markdown) ==
    LET ls == SplitOn(markdown, NL)
        cleaned == [i \in 1..Len(ls) |-> clean_line(ls[i])]
    IN  SelectSeq(cleaned, LAMBDA l : l # <<>>)

(***************************************************************************)
(* TextDiffer._compute_word_overlap and compute_changes                    *)
(***************************************************************************)
\* TextDiffer.__init__: overlap_threshold = 0.3 = ThresholdNum / ThresholdDen
ThresholdNum == 3
ThresholdDen == 10

\* the ratio overlap / total as the fraction [n, d]; 0.0 is 0/1
compute_word_overlap(text1, text2) ==
    LET words1 == WordSet(Lower(text1))
        words2 == WordSet(Lower(text2))
    IN  IF words1 = {} \/ words2 = {} THEN [n |-> 0, d |-> 1]
        ELSE [n |-> Cardinality(words1 \cap words2),
              d |-> Cardinality(words1 \cup words2)]

\* a > b for two fractions
Greater(a, b) == a.n * b.d > b.n * a.d

\* overlap >= self.overlap_threshold
AtLeastThreshold(a) == a.n * ThresholdDen >= ThresholdNum * a.d

\* the inner loop: best_match as the index of the candidate, 0 for None
best_match_of(text, edited_texts, used_edited) ==
    LET scan[i \in 0..Len(edited_texts)] ==
            IF i = 0 THEN [idx |-> 0, overlap |-> [n |-> 0, d |-> 1]]
            ELSE LET prev == scan[i - 1]
                     overlap == compute_word_overlap(text, edited_texts[i])
                 IN  IF i \in used_edited THEN prev
                     ELSE IF Greater(overlap, prev.overlap) /\ AtLeastThreshold(overlap)
                          THEN [idx |-> i, overlap |-> overlap]
                          ELSE prev
    IN  scan[Len(edited_texts)].idx

\* the candidate is marked used whenever a leaf matched it
used_after_any_match(used_edited, best, changed) ==
    IF best # 0 THEN used_edited \cup {best} ELSE used_edited

\* used_edited after one leaf: the add sits inside the "text changed" branch
used_after(used_edited, best, changed) ==
    IF changed THEN used_edited \cup {best} ELSE used_edited

\* the outer loop, leaf by leaf: for each leaf its best_match, whether a
\* TextChange was appended, and used_edited after it
match_trace(original_nodes, edited_texts) ==
    LET step[k \in 0..Len(original_nodes)] ==
            IF k = 0 THEN [rows |-> <<>>, used |-> {}]
            ELSE LET prev == step[k - 1]
                     node == original_nodes[k]
                     best == best_match_of(node.text, edited_texts, prev.used)
                     changed == best # 0 /\ edited_texts[best] # node.text
                 IN  [rows |-> Append(prev.rows,
                                      [best |-> best, changed |-> changed,
                                       used_before |-> prev.used]),
                      used |-> used_after(prev.used, best, changed)]
    IN  step[Len(original_nodes)].rows

\* compute_changes: the TextChange list
compute_changes(original_nodes, edited_markdown) ==
    LET edited_texts == extract_text_from_markdown(edited_markdown)
        rows == match_trace(original_nodes, edited_texts)
        all == [k \in 1..Len(original_nodes) |->
                   IF rows[k].changed
                   THEN <<[path |-> original_nodes[k].path,
                           old_text |-> original_nodes[k].text,
                           new_text |-> edited_texts[rows[k].best]]>>
                   ELSE <<>>]
    IN  Concat(all)

(***************************************************************************)
(* ADFTextExtractor.apply_text_changes                                     *)
(*                                                                         *)
(* _apply_change walks path_parts[:-1] with current[part] and then assigns *)
(* current["text"].  Each walk below returns [raised, val]: whether Python *)
(* raised (KeyError, IndexError, TypeError) and the container as the call  *)
(* left it.  The paths of the model have the parts "content", "attrs",     *)
(* "text" and digits.                                                      *)
(***************************************************************************)
\* the dict is replaced by one that holds the new text and nothing else
only_text(node, new_text) == [text |-> new_text]

\* current["text"] = change.new_text on a dict
SetText(node, new_text) ==
    [k \in DOMAIN node \cup {"text"} |-> IF k = "text" THEN new_text ELSE node[k]]

Raised(val) == [raised |-> TRUE, val |-> val]

Done(val) == [raised |-> FALSE, val |-> val]

RECURSIVE apply_in_dict(_, _, _)
RECURSIVE apply_in_list(_, _, _)
\* current is a dict
apply_in_dict(node, parts, new_text) ==
    IF Len(parts) = 1
    THEN IF parts[1] = "text" THEN Done(SetText(node, new_text)) ELSE Done(node)
    ELSE LET part == Head(parts)
         IN  IF IsDigit(part) THEN Raised(node)
             ELSE IF part \notin DOMAIN node THEN Raised(node)
             ELSE IF part = "content"
                  THEN LET r == apply_in_list(node.content, Tail(parts), new_text)
                       IN  [raised |-> r.raised,
                            val |-> [node EXCEPT !.content = r.val]]
             ELSE IF part = "attrs"
                  THEN LET r == apply_in_dict(node.attrs, Tail(parts), new_text)
                       IN  [raised |-> r.raised,
                            val |-> [node EXCEPT !.attrs = r.val]]
             ELSE Raised(node)

\* current is a list
apply_in_list(list, parts, new_text) ==
    IF Len(parts) = 1
    THEN IF parts[1] = "text" THEN Raised(list) ELSE Done(list)
    ELSE LET part == Head(parts)
         IN  IF ~IsDigit(part) THEN Raised(list)
             ELSE IF ToInt(part) >= Len(list) THEN Raised(list)
             ELSE LET r == apply_in_dict(list[ToInt(part) + 1], Tail(parts), new_text)
                  IN  [raised |-> r.raised,
                       val |-> [list EXCEPT ![ToInt(part) + 1] = r.val]]

\* _apply_change(adf, change)
apply_change(adf, change) == apply_in_dict(adf, change.path, change.new_text)

\* result = adf: the object patched is the caller's own tree
same_object(adf) == [tree |-> adf, is_argument |-> TRUE]

\* result = copy.deepcopy(adf): a new object, equal to the argument
deepcopy(adf) == [tree |-> adf, is_argument |-> FALSE]

\* apply_text_changes: [raised, result, argument], where result is the object
\* named result when the call ended (returned, if nothing was raised) and
\* argument is the caller's tree when the call ended
apply_text_changes(adf, changes) ==
    LET copy == deepcopy(adf)
        loop[k \in 0..Len(changes)] ==
            IF k = 0 THEN Done(copy.tree)
            ELSE IF loop[k - 1].raised THEN loop[k - 1]
            ELSE apply_change(loop[k - 1].val, changes[k])
        end == loop[Len(changes)]
    IN  [raised |-> end.raised,
         result |-> end.val,
         argument |-> IF copy.is_argument THEN end.val ELSE adf]

(***************************************************************************)
(* Documents and edits the model runs on                                   *)
(***************************************************************************)
\* "a b"
tAB == <<"a", " ", "b">>
\* "b c"
tBC == <<"b", " ", "c">>
\* "a " (trailing blank)
tATrail == <<"a", " ">>
\* "# a" (reads as a markdown heading)
tHash == <<"#", " ", "a">>
\* "*a*" (reads as markdown emphasis)
tStar == <<"*", "a", "*">>
\* " " (whitespace only)
tBlank == <<" ">>

Texts == {tAB, tBC, tATrail, tHash, tStar, tBlank}

\* all sequences over S of length 1..n
SeqsUpTo(S, n) == UNION {[1..k -> S] : k \in 1..n}

Panel(children) ==
    [type |-> "panel", attrs |-> [panelType |-> "info"], content |-> children]

Expand(children) ==
    [type |-> "expand", attrs |-> [title |-> "more"], content |-> children]

BodiedExtension(children) ==
    [type |-> "bodiedExtension", attrs |-> [extensionKey |-> "excerpt"],
     content |-> children]

ListOf(type, items) ==
    [type |-> type,
     content |-> [i \in 1..Len(items) |->
                     [type |-> "listItem", content |-> <<Paragraph(<<items[i]>>)>>]]]

\* paragraphs of one to MaxRun text nodes
RichBlocks ==
    {Paragraph([i \in 1..Len(run) |-> TextNode(run[i])]) : run \in SeqsUpTo(Texts, MaxRun)}
    \cup {Panel(<<Heading(2, <<TextNode(tAB)>>), Paragraph(<<TextNode(tBC)>>)>>),
          Expand(<<Panel(<<Paragraph(<<TextNode(tAB)>>)>>)>>),
          [type |-> "codeBlock", attrs |-> [language |-> <<"py">>],
           content |-> <<TextNode(tAB)>>]}

SimpleBlocks ==
    {Paragraph(<<TextNode(tAB)>>),
     Paragraph(<<TextNode(tAB), TextNode(<<" ", "c">>)>>),
     Heading(2, <<TextNode(tBC)>>),
     Panel(<<Paragraph(<<TextNode(tAB)>>)>>),
     Expand(<<Paragraph(<<TextNode(tBC)>>)>>),
     BodiedExtension(<<Paragraph(<<TextNode(tAB)>>)>>),
     ListOf("bulletList", <<TextNode(tAB), TextNode(tBC)>>),
     ListOf("orderedList", <<TextNode(tBC)>>),
     [type |-> "blockquote", content |-> <<Paragraph(<<TextNode(tAB)>>)>>]}

Documents ==
    {Doc(<<b>>) : b \in RichBlocks}
    \cup {Doc(bs) : bs \in SeqsUpTo(SimpleBlocks, MaxBlocks)}

\* lines an editor types: "a b", "a b c", "b c d", "## b c"
EditLines ==
    {tAB, <<"a", " ", "b", " ", "c">>, <<"b", " ", "c", " ", "d">>,
     <<"#", "#", " ", "b", " ", "c">>}

EditedMarkdowns == {Join(ls, <<NL>>) : ls \in SeqsUpTo(EditLines, MaxLines)}

\* the tree with its i-th top-level block removed
WithoutBlock(adf, i) ==
    [adf EXCEPT !.content =
        SubSeq(adf.content, 1, i - 1) \o SubSeq(adf.content, i + 1, Len(adf.content))]

\* later snapshots of the same page, one top-level block shorter
StaleSnapshots(adf) == {WithoutBlock(adf, i) : i \in 1..Len(adf.content)}

(***************************************************************************)
(* ADFValidator.validate_adf and MacroBodyDetector                         *)
(***************************************************************************)
\* node.get("type"); "None" for a node that has no type
TypeOf(node) == IF Has(node, "type") THEN node.type ELSE "None"

\* _validate_nodes_recursive: the error list, one entry per fault found; a
\* text that is not a string is the field text_scalar, a content that is not
\* a list the field content_scalar
RECURSIVE validate_nodes_recursive(_)
validate_nodes_recursive(node) ==
    LET text_errors ==
            IF TypeOf(node) = "text"
            THEN IF ~Has(node, "text") /\ ~Has(node, "text_scalar")
                 THEN <<"text node missing text">>
                 ELSE IF ~Has(node, "text") THEN <<"text must be string">>
                 ELSE <<>>
            ELSE <<>>
        macro_errors ==
            IF TypeOf(node) \in MACRO_NODE_TYPES /\ ~Has(node, "attrs")
            THEN <<"macro node missing attrs">>
            ELSE <<>>
        kids == ContentOf(node)
    IN  text_errors \o macro_errors
        \o Concat([i \in 1..Len(kids) |-> validate_nodes_recursive(kids[i])])

\* validate_adf of a dict
validate_adf(adf) ==
    (IF ~Has(adf, "type") THEN <<"missing type">> ELSE <<>>)
    \o (IF TypeOf(adf) # "doc" THEN <<"root type must be doc">> ELSE <<>>)
    \o (IF ~Has(adf, "content") /\ ~Has(adf, "content_scalar")
        THEN <<"missing content">>
        ELSE IF ~HasContentList(adf) THEN <<"content must be a list">>
        ELSE <<>>)
    \o validate_nodes_recursive(adf)

\* _count_text_nodes
RECURSIVE count_text_nodes(_)
count_text_nodes(node) ==
    LET kids == ContentOf(node)
        below[i \in 0..Len(kids)] ==
            IF i = 0 THEN 0 ELSE below[i - 1] + count_text_nodes(kids[i])
    IN  (IF node.type = "text" /\ Strip(IF Has(node, "text") THEN node.text ELSE <<>>) # <<>>
         THEN 1 ELSE 0) + below[Len(kids)]

\* detect_macros_with_content: the number of MacroInfo records returned
RECURSIVE detect_macros_with_content(_)
detect_macros_with_content(node) ==
    LET kids == ContentOf(node)
        below[i \in 0..Len(kids)] ==
            IF i = 0 THEN 0 ELSE below[i - 1] + detect_macros_with_content(kids[i])
    IN  IF node.type \in MACRO_NODE_TYPES
        THEN (IF count_text_nodes(node) > 0 THEN 1 ELSE 0)
        ELSE below[Len(kids)]

(***************************************************************************)
(* BackupManager                                                           *)
(*                                                                         *)
(* The backup directory is a function from page id to the set of the files *)
(* of that page's directory; a file is [name, data], name being the        *)
(* timestamp the file is called after.                                     *)
(***************************************************************************)
\* BackupManager.__init__: retention_limit = 10
DefaultRetentionLimit == 10

\* datetime.now().strftime(...): zero-padded fields of fixed width, here the
\* clock reading as two digits
strftime(now) == <<ToStr(now \div 10), ToStr(now % 10)>>

\* a < b for two str (Python compares character by character)
RECURSIVE StrLess(_, _)
StrLess(a, b) ==
    IF b = <<>> THEN FALSE
    ELSE IF a = <<>> THEN TRUE
    ELSE IF Head(a) # Head(b) THEN ToInt(Head(a)) < ToInt(Head(b))
    ELSE StrLess(Tail(a), Tail(b))

\* sorted(names, reverse=True)
RECURSIVE SortedReverse(_)
SortedReverse(names) ==
    IF names = {} THEN <<>>
    ELSE LET top == CHOOSE n \in names : \A m \in names : ~StrLess(n, m)
         IN  <<top>> \o SortedReverse(names \ {top})

\* sorted(names)
RECURSIVE SortedForward(_)
SortedForward(names) ==
    IF names = {} THEN <<>>
    ELSE LET low == CHOOSE n \in names : \A m \in names : ~StrLess(m, n)
         IN  <<low>> \o SortedForward(names \ {low})

Names(files) == {f.name : f \in files}

\* the sort lost its reverse=True: the oldest files are kept
cleanup_keeping_oldest(files, retention_limit) ==
    LET backups == SortedForward(Names(files))
        doomed == {backups[i] : i \in (retention_limit + 1)..Len(backups)}
    IN  {f \in files : f.name \notin doomed}

\* _cleanup_old_backups: the files of the page's directory that are left
cleanup_old_backups(files, retention_limit) ==
    LET backups == SortedReverse(Names(files))
        doomed == {backups[i] : i \in (retention_limit + 1)..Len(backups)}
    IN  {f \in files : f.name \notin doomed}

\* create_backup: the page's directory after the call; open(..., "w")
\* replaces a file of the same name
create_backup(files, page_id, adf_content, version, now, retention_limit) ==
    LET timestamp == strftime(now)
        backup_data == [page_id |-> page_id, version |-> version,
                        timestamp |-> timestamp, adf_content |-> adf_content]
        written == {f \in files : f.name # timestamp}
                   \cup {[name |-> timestamp, data |-> backup_data]}
    IN  cleanup_old_backups(written, retention_limit)

\* load_backup(page_id) with timestamp None: the file of the greatest name;
\* called only on a directory that holds a file
load_latest_backup(files) ==
    LET backups == SortedReverse(Names(files))
    IN  CHOOSE f \in files : f.name = backups[1]

\* load_backup(page_id, timestamp) of a file that exists
load_backup_at(files, timestamp) == CHOOSE f \in files : f.name = timestamp

\* list_backups: the timestamps, newest first
list_backups(files) == SortedReverse(Names(files))

(***************************************************************************)
(* confluence_adf_utils: find_heading_index, update_page_adf; add_rule     *)
(***************************************************************************)
\* sub in s
Contains(s, sub) == \E i \in 1..(Len(s) + 1) : i + Len(sub) - 1 <= Len(s) /\ At(s, i, sub)

\* the text of the direct text children of a heading, concatenated
heading_full_text(node) ==
    LET kids == ContentOf(node)
    IN  Concat([i \in 1..Len(kids) |->
                   IF kids[i].type = "text" /\ Has(kids[i], "text") THEN kids[i].text
                   ELSE <<>>])

\* a heading with the text, at the node or anywhere below it
RECURSIVE has_heading_within(_, _)
has_heading_within(node, heading_text) ==
    \/ node.type = "heading" /\ Contains(heading_full_text(node), heading_text)
    \/ \E i \in 1..Len(ContentOf(node)) : has_heading_within(ContentOf(node)[i], heading_text)

\* the search that also looks inside the siblings
find_heading_index_deep(content, heading_text) ==
    LET hits == {i \in 1..Len(content) : has_heading_within(content[i], heading_text)}
    IN  IF hits = {} THEN -1
        ELSE (CHOOSE i \in hits : \A j \in hits : i <= j) - 1

\* find_heading_index: the 0-based index, -1 for None
find_heading_index(content, heading_text) ==
    LET hits == {i \in 1..Len(content) :
                    /\ content[i].type = "heading"
                    /\ Contains(heading_full_text(content[i]), heading_text)}
    IN  IF hits = {} THEN -1
        ELSE (CHOOSE i \in hits : \A j \in hits : i <= j) - 1

\* list[index] = item where there is such a place, the item at the end otherwise
list_overwrite(list, index, item) ==
    IF index < Len(list) THEN [list EXCEPT ![index + 1] = item] ELSE Append(list, item)

\* list.insert(index, item)
ListInsert(list, index, item) ==
    SubSeq(list, 1, index) \o <<item>> \o SubSeq(list, index + 1, Len(list))

\* add_rule: [success, adf]; after_heading <<>> is None
add_rule(adf, after_heading, local_id) ==
    LET content == ContentOf(adf)
        rule_node == [type |-> "rule", attrs |-> [localId |-> local_id]]
        heading_idx == find_heading_index(content, after_heading)
    IN  IF after_heading # <<>>
        THEN IF heading_idx = -1 THEN [success |-> FALSE, adf |-> adf]
             ELSE [success |-> TRUE,
                   adf |-> [adf EXCEPT !.content = ListInsert(content, heading_idx + 1, rule_node)]]
        ELSE [success |-> TRUE, adf |-> [adf EXCEPT !.content = Append(content, rule_node)]]

\* the payload sends the version it was handed, unchanged
version_unchanged(version) == version

\* update_page_adf: payload["version"]["number"]
payload_version_number(version) == version + 1

(***************************************************************************)
(* State                                                                   *)
(***************************************************************************)
VARIABLES
    rt_pc,          \* the step the roundtrip pipeline is at
    rt_adf,         \* the tree fetched
    rt_include,     \* include_macro_bodies (Advanced mode)
    rt_nodes,       \* original_nodes
    rt_markdown,    \* markdown
    rt_edited,      \* edited_markdown
    rt_changes,     \* changes
    rt_target,      \* the tree handed to apply_text_changes
    rt_out,         \* what apply_text_changes left: [raised, result, argument]
    bk_files,       \* the backup directory: page id -> set of files
    bk_clock,       \* the wall clock, in ticks
    bk_retention,   \* BackupManager.retention_limit
    bk_created,     \* history: page id -> clock readings of its create_backup calls
    st_version,     \* the store's version number of the page
    st_body,        \* the store's tree of the page
    st_others,      \* updates other writers have made so far
    requests,       \* the update requests of the invocation under way
    sc_pc,          \* the single-purpose script: where it is
    sc_args,        \* its command line: [dry_run, after_heading]
    sc_adf,         \* adf
    sc_version,     \* version
    sc_calls,       \* history: calls of modify_fn in this invocation
    sc_fetches,     \* history: page reads in this invocation
    sc_exit,        \* exit status, -1 while running
    sc_runs,        \* invocations so far
    ep_pc,          \* edit_page: where it is
    ep_advanced,    \* advanced_mode
    ep_include,     \* include_macro_bodies
    ep_adf,         \* adf_content
    ep_version,     \* version
    ep_backup_file, \* backup_file: unbound, None or the path of the file
    ep_patched,     \* patched_adf
    ep_error,       \* the step whose exception the handler caught
    ep_backup_data, \* backup_data loaded by the handler
    ep_result,      \* the dict returned; status "raised" if an exception escaped
    ep_runs,        \* calls of the controller and the helper so far
    rb_result,      \* rollback_page: the dict returned by the last call
    pce_adf,        \* process_confluence_edit: page_adf of the last call
    pce_result,     \* its result
    pce_backed_up   \* history: the last call ran create_backup

rt_vars ==
    <<rt_pc, rt_adf, rt_include, rt_nodes, rt_markdown, rt_edited, rt_changes,
      rt_target, rt_out>>

bk_vars == <<bk_files, bk_clock, bk_retention, bk_created>>

st_vars == <<st_version, st_body, st_others, requests>>

sc_vars == <<sc_pc, sc_args, sc_adf, sc_version, sc_calls, sc_fetches, sc_exit, sc_runs>>

ep_vars ==
    <<ep_pc, ep_advanced, ep_include, ep_adf, ep_version, ep_backup_file, ep_patched,
      ep_error, ep_backup_data, ep_result, ep_runs, rb_result,
      pce_adf, pce_result, pce_backed_up>>

VARIABLES
    mu_pc,          \* a call of a tree function: "start" before, "done" after
    mu_adf,         \* the tree the call is made on
    mu_call,        \* the function called and its arguments
    mu_out          \* what the call returned, and the tree as the call left it

mu_vars == <<mu_pc, mu_adf, mu_call, mu_out>>

VARIABLES
    uploads         \* the attachment uploads the scripts have sent, in order

md_vars == <<uploads>>

\* the variables of the specifications further down
\* the batch image generator (generate_batch.py, generate_images.py): the
\* entry point run, the locals of main, the files under the temporary
\* directory, the API's answers so far and what a polling process last read
VARIABLES
    bt_entry, bt_slides, bt_pc, bt_wp, bt_i, bt_completed, bt_failed,
    bt_errors, bt_outcomes, bt_stop, bt_exit, files, polled

bt_vars == <<bt_entry, bt_slides, bt_pc, bt_wp, bt_i, bt_completed, bt_failed,
             bt_errors, bt_outcomes, bt_stop, bt_exit, files, polled>>

\* PROGRESS_FILE, its .tmp sibling, RESULTS_FILE and generation-results.json
FileNames == {"progress", "tmp", "results", "output_results"}

BtIdle ==
    /\ bt_entry = "none"
    /\ bt_slides = <<>>
    /\ bt_pc = "idle"
    /\ bt_wp = "none"
    /\ bt_i = 0
    /\ bt_completed = <<>>
    /\ bt_failed = <<>>
    /\ bt_errors = <<>>
    /\ bt_outcomes = <<>>
    /\ bt_stop = "none"
    /\ bt_exit = -1
    /\ files = [f \in FileNames |-> <<>>]
    /\ polled = "never"

ext_vars == <<mu_vars, md_vars, bt_vars>>

vars == <<rt_vars, bk_vars, st_vars, sc_vars, ep_vars, ext_vars>>

MuIdle ==
    /\ mu_pc = "idle"
    /\ mu_adf = <<>>
    /\ mu_call = <<>>
    /\ mu_out = <<>>

MdIdle == uploads = <<>>

ExtIdle == MuIdle /\ MdIdle /\ BtIdle

PageIds == {"p1", "p2"}

\* the parts of the state a specification does not use
RtIdle ==
    /\ rt_pc = "idle"
    /\ rt_adf = <<>>
    /\ rt_include = FALSE
    /\ rt_nodes = <<>>
    /\ rt_markdown = <<>>
    /\ rt_edited = <<>>
    /\ rt_changes = <<>>
    /\ rt_target = <<>>
    /\ rt_out = <<>>

BkIdle ==
    /\ bk_files = [p \in PageIds |-> {}]
    /\ bk_clock = 0
    /\ bk_retention = DefaultRetentionLimit
    /\ bk_created = [p \in PageIds |-> {}]

StIdle ==
    /\ st_version = 1
    /\ st_body = <<>>
    /\ st_others = 0
    /\ requests = <<>>

ScIdle ==
    /\ sc_pc = "idle"
    /\ sc_args = <<>>
    /\ sc_adf = <<>>
    /\ sc_version = 0
    /\ sc_calls = 0
    /\ sc_fetches = 0
    /\ sc_exit = -1
    /\ sc_runs = 0

NoResult == [status |-> "none"]

\* the local backup_file of edit_page: not assigned yet, None, or a path
Unbound == [bound |-> FALSE, none |-> FALSE, name |-> <<>>]
NoneFile == [bound |-> TRUE, none |-> TRUE, name |-> <<>>]
PathOf(timestamp) == [bound |-> TRUE, none |-> FALSE, name |-> timestamp]

EpIdle ==
    /\ ep_pc = "idle"
    /\ ep_advanced = FALSE
    /\ ep_include = FALSE
    /\ ep_adf = <<>>
    /\ ep_version = 0
    /\ ep_backup_file = Unbound
    /\ ep_patched = <<>>
    /\ ep_error = "none"
    /\ ep_backup_data = <<>>
    /\ ep_result = NoResult
    /\ ep_runs = 0
    /\ rb_result = NoResult
    /\ pce_adf = <<>>
    /\ pce_result = NoResult
    /\ pce_backed_up = FALSE

(***************************************************************************)
(* The roundtrip pipeline: extract, convert, edit, diff, patch             *)
(* (MCPJsonDiffRoundtrip.edit_page steps 4 to 8, roundtrip_helper)         *)
(***************************************************************************)
RtInit ==
    /\ rt_pc = "start"
    /\ rt_adf \in Documents
    /\ rt_include \in BOOLEAN
    /\ rt_nodes = <<>>
    /\ rt_markdown = <<>>
    /\ rt_edited = <<>>
    /\ rt_changes = <<>>
    /\ rt_target = <<>>
    /\ rt_out = <<>>
    /\ BkIdle /\ StIdle /\ ScIdle /\ EpIdle /\ ExtIdle

\* edit_page step 4
Extract ==
    /\ rt_pc = "start"
    /\ rt_nodes' = extract_text_nodes(rt_adf, ~rt_include)
    /\ rt_pc' = "extracted"
    /\ UNCHANGED <<rt_adf, rt_include, rt_markdown, rt_edited, rt_changes, rt_target, rt_out>>
    /\ UNCHANGED <<bk_vars, st_vars, sc_vars, ep_vars, ext_vars>>

\* edit_page step 5
Convert ==
    /\ rt_pc = "extracted"
    /\ rt_markdown' = convert_to_markdown(rt_adf, rt_include)
    /\ rt_pc' = "converted"
    /\ UNCHANGED <<rt_adf, rt_include, rt_nodes, rt_edited, rt_changes, rt_target, rt_out>>
    /\ UNCHANGED <<bk_vars, st_vars, sc_vars, ep_vars, ext_vars>>

\* edit_page step 6: edited_markdown = markdown
EditNothing ==
    /\ rt_pc = "converted"
    /\ rt_edited' = rt_markdown
    /\ rt_pc' = "edited"
    /\ UNCHANGED <<rt_adf, rt_include, rt_nodes, rt_markdown, rt_changes, rt_target, rt_out>>
    /\ UNCHANGED <<bk_vars, st_vars, sc_vars, ep_vars, ext_vars>>

\* roundtrip_helper: the editor hands back a markdown of its own
EditText ==
    /\ rt_pc = "converted"
    /\ rt_edited' \in EditedMarkdowns
    /\ rt_pc' = "edited"
    /\ UNCHANGED <<rt_adf, rt_include, rt_nodes, rt_markdown, rt_changes, rt_target, rt_out>>
    /\ UNCHANGED <<bk_vars, st_vars, sc_vars, ep_vars, ext_vars>>

\* edit_page step 7
ComputeChanges ==
    /\ rt_pc = "edited"
    /\ rt_changes' = compute_changes(rt_nodes, rt_edited)
    /\ rt_pc' = "diffed"
    /\ UNCHANGED <<rt_adf, rt_include, rt_nodes, rt_markdown, rt_edited, rt_target, rt_out>>
    /\ UNCHANGED <<bk_vars, st_vars, sc_vars, ep_vars, ext_vars>>

\* edit_page step 8: the changes patch the tree they were computed from
ApplyTextChanges ==
    /\ rt_pc = "diffed"
    /\ rt_target' = rt_adf
    /\ rt_out' = apply_text_changes(rt_adf, rt_changes)
    /\ rt_pc' = "patched"
    /\ UNCHANGED <<rt_adf, rt_include, rt_nodes, rt_markdown, rt_edited, rt_changes>>
    /\ UNCHANGED <<bk_vars, st_vars, sc_vars, ep_vars, ext_vars>>

\* apply_text_changes called with another snapshot of the page than the one
\* the leaves were extracted from
ApplyToStaleSnapshot ==
    /\ rt_pc = "diffed"
    /\ rt_changes # <<>>
    /\ \E t \in StaleSnapshots(rt_adf) :
          /\ rt_target' = t
          /\ rt_out' = apply_text_changes(t, rt_changes)
    /\ rt_pc' = "patched"
    /\ UNCHANGED <<rt_adf, rt_include, rt_nodes, rt_markdown, rt_edited, rt_changes>>
    /\ UNCHANGED <<bk_vars, st_vars, sc_vars, ep_vars, ext_vars>>

RtNext ==
    \/ Extract
    \/ Convert
    \/ EditNothing
    \/ EditText
    \/ ComputeChanges
    \/ ApplyTextChanges
    \/ ApplyToStaleSnapshot

SpecRoundtrip == RtInit /\ [][RtNext]_vars

(***************************************************************************)
(* Properties of the roundtrip pipeline                                    *)
(***************************************************************************)
\* the child-index sequences (1-based) of all the nodes of a tree
RECURSIVE AllPositions(_)
AllPositions(node) ==
    LET kids == ContentOf(node)
    IN  {<<>>} \cup UNION {{<<i>> \o q : q \in AllPositions(kids[i])} : i \in 1..Len(kids)}

RECURSIVE NodeAt(_, _)
NodeAt(node, pos) ==
    IF pos = <<>> THEN node ELSE NodeAt(node.content[Head(pos)], Tail(pos))

\* the JSON path of the text field of the node at pos
TextPath(pos) ==
    Concat([i \in 1..Len(pos) |-> <<"content", ToStr(pos[i] - 1)>>]) \o <<"text">>

\* a node the specification calls opaque
Opaque(node) ==
    \/ node.type \in {"inlineExtension", "extension", "bodiedExtension", "panel", "expand"}
    \/ "extensionKey" \in DOMAIN AttrsOf(node)
    \/ "panelType" \in DOMAIN AttrsOf(node)

\* pos lies in or below an opaque node
ThroughOpaque(adf, pos) ==
    \E n \in 0..Len(pos) : Opaque(NodeAt(adf, SubSeq(pos, 1, n)))

NonBlankText(node) ==
    node.type = "text" /\ \E i \in 1..Len(node.text) : ~IsSpace(node.text[i])

Extracted == rt_pc # "start"

Diffed == rt_pc \in {"diffed", "patched"}

\* C1: fed the unedited markdown of a tree, compute_changes returns no change
\* and apply_text_changes returns a tree equal to the original
C1_UneditedRoundTripIsClean ==
    /\ Diffed /\ rt_edited = rt_markdown => rt_changes = <<>>
    /\ rt_pc = "patched" /\ rt_edited = rt_markdown /\ rt_target = rt_adf
          => ~rt_out.raised /\ rt_out.result = rt_adf

\* C2: in Safe mode no extracted leaf lies in or below an opaque node; in
\* Advanced mode every text node with non-blank text is extracted
C2_SafeSkipsOpaqueAdvancedTakesAll ==
    Extracted =>
        /\ ~rt_include =>
              \A k \in 1..Len(rt_nodes) :
                 \E pos \in AllPositions(rt_adf) :
                    /\ TextPath(pos) = rt_nodes[k].path
                    /\ ~ThroughOpaque(rt_adf, pos)
        /\ rt_include =>
              \A pos \in AllPositions(rt_adf) :
                 NonBlankText(NodeAt(rt_adf, pos)) =>
                    \E k \in 1..Len(rt_nodes) :
                       /\ rt_nodes[k].path = TextPath(pos)
                       /\ rt_nodes[k].text = NodeAt(rt_adf, pos).text

\* Safe mode on a tree with text both below an opaque node and outside of one
C2_Witness ==
    /\ rt_pc = "extracted"
    /\ ~rt_include
    /\ rt_nodes # <<>>
    /\ \E pos \in AllPositions(rt_adf) :
          NonBlankText(NodeAt(rt_adf, pos)) /\ ThroughOpaque(rt_adf, pos)

\* the candidates and the per-leaf matches of the compute_changes call made
DiffCandidates == extract_text_from_markdown(rt_edited)

DiffRows == match_trace(rt_nodes, DiffCandidates)

\* C8: over one compute_changes call no candidate is the match of two leaves
C8_CandidateMatchedAtMostOnce ==
    Diffed =>
        \A j, k \in 1..Len(DiffRows) :
           j < k /\ DiffRows[j].best # 0 => DiffRows[k].best # DiffRows[j].best

\* the candidates no earlier leaf was matched to
UnusedAt(k) ==
    {i \in 1..Len(DiffCandidates) : \A j \in 1..(k - 1) : DiffRows[j].best # i}

\* the first of the candidates of U with the highest overlap with text
BestOf(text, U) ==
    CHOOSE i \in U :
       \A j \in U :
          LET oi == compute_word_overlap(text, DiffCandidates[i])
              oj == compute_word_overlap(text, DiffCandidates[j])
          IN  ~Greater(oj, oi) /\ (j < i => Greater(oi, oj))

\* the TextChange of leaf k, as a sequence of zero or one change
ChangeOf(k) ==
    SelectSeq(rt_changes, LAMBDA c : c.path = rt_nodes[k].path)

\* C9: a leaf yields a TextChange exactly when its best unused candidate
\* reaches the threshold and differs from the leaf, and new_text is it
C9_ChangeIffBestUnusedDiffers ==
    Diffed =>
        \A k \in 1..Len(rt_nodes) :
           LET U == UnusedAt(k)
               text == rt_nodes[k].text
               hit == /\ U # {}
                      /\ AtLeastThreshold(
                            compute_word_overlap(text, DiffCandidates[BestOf(text, U)]))
                      /\ DiffCandidates[BestOf(text, U)] # text
           IN  IF hit
               THEN ChangeOf(k) =
                       <<[path |-> rt_nodes[k].path, old_text |-> text,
                          new_text |-> DiffCandidates[BestOf(text, U)]]>>
               ELSE ChangeOf(k) = <<>>

\* C10: apply_text_changes leaves the tree it was handed as it was
C10_ArgumentNotMutated ==
    rt_pc = "patched" => rt_out.argument = rt_target

\* a call that patched a text, so that result and argument differ
C10_Witness ==
    /\ rt_pc = "patched"
    /\ rt_changes # <<>>
    /\ rt_out.result # rt_target

\* a call on a stale snapshot that patched one text and raised on the next
C10_WitnessRaised ==
    /\ rt_pc = "patched"
    /\ rt_out.raised
    /\ rt_out.result # rt_target

(***************************************************************************)
(* The backup manager on its own: a run of create_backup calls             *)
(***************************************************************************)
EmptyDoc == Doc(<<>>)

BkInit ==
    /\ bk_files = [p \in PageIds |-> {}]
    /\ bk_clock = 0
    /\ bk_retention \in {2, DefaultRetentionLimit}
    /\ bk_created = [p \in PageIds |-> {}]
    /\ RtIdle /\ StIdle /\ ScIdle /\ EpIdle /\ ExtIdle

\* create_backup(page_id, ...): the clock has moved on since the last call
CreateBackup(page_id) ==
    /\ bk_clock < MaxBackups
    /\ bk_clock' = bk_clock + 1
    /\ bk_files' = [bk_files EXCEPT ![page_id] =
                       create_backup(@, page_id, EmptyDoc, 1, bk_clock', bk_retention)]
    /\ bk_created' = [bk_created EXCEPT ![page_id] = @ \cup {bk_clock'}]
    /\ UNCHANGED bk_retention
    /\ UNCHANGED <<rt_vars, st_vars, sc_vars, ep_vars, ext_vars>>

BkNext == \E page_id \in PageIds : CreateBackup(page_id)

SpecBackup == BkInit /\ [][BkNext]_vars

Min(a, b) == IF a < b THEN a ELSE b

\* C7: after any run of create_backup calls the files of a page are the
\* min(k, N) most recent of its k backups, whatever was created for other pages
C7_RetentionKeepsMostRecent ==
    \A p \in PageIds :
       LET calls == bk_created[p]
           kept == {c \in calls : strftime(c) \in Names(bk_files[p])}
       IN  /\ Names(bk_files[p]) = {strftime(c) : c \in kept}
           /\ Cardinality(bk_files[p]) = Min(Cardinality(calls), bk_retention)
           /\ \A c \in kept : \A d \in calls \ kept : d < c

\* the eleventh backup of a page under retention limit 10, another page
\* holding a backup too
C7_Witness ==
    \E p, q \in PageIds :
       /\ p # q
       /\ bk_retention = 10
       /\ Cardinality(bk_created[p]) = 11
       /\ Cardinality(bk_files[p]) = 10
       /\ bk_files[q] # {}

(***************************************************************************)
(* A single-purpose script (add_rule through execute_modification; the     *)
(* main of insert_section, add_panel, add_list_item and add_table_row runs *)
(* the same steps) against the store, with other writers                   *)
(***************************************************************************)
ScriptDocs ==
    {Doc(<<Heading(2, <<TextNode(tBC)>>), Paragraph(<<TextNode(tAB)>>)>>),
     Doc(<<Paragraph(<<TextNode(tAB)>>)>>)}

\* --after-heading: absent, a heading of the page, a heading of no page
AfterHeadings == {<<>>, tBC, <<"z">>}

\* os.urandom(4).hex()
LocalIds == {"rule-0a", "rule-0b"}

\* an update request as the store sees it: the version number of its payload
\* (0 when the request carries none), the version the writer had fetched (0
\* when it fetched none), the store's version when the request arrived
Request(by, has_version, number, seen, body, accepted) ==
    [by |-> by, has_version |-> has_version, number |-> number, seen |-> seen,
     at |-> st_version, body |-> body, accepted |-> accepted]

ScInit ==
    /\ st_version = 1
    /\ st_body \in ScriptDocs
    /\ st_others = 0
    /\ requests = <<>>
    /\ ScIdle /\ RtIdle /\ BkIdle /\ EpIdle /\ ExtIdle

\* another writer updates the page
OtherWrite ==
    /\ st_others < MaxOtherWrites
    /\ st_others' = st_others + 1
    /\ st_version' = st_version + 1
    /\ st_body' = [st_body EXCEPT !.content = Append(@, Paragraph(<<TextNode(tBC)>>))]
    /\ UNCHANGED <<requests, rt_vars, bk_vars, sc_vars, ep_vars, ext_vars>>

ScExit(status) ==
    /\ sc_exit' = status
    /\ sc_pc' = "exited"

ScStart ==
    /\ sc_pc \in {"idle", "exited"}
    /\ sc_runs < MaxInvocations
    /\ sc_runs' = sc_runs + 1
    /\ \E dry_run \in BOOLEAN, after_heading \in AfterHeadings :
          sc_args' = [script |-> "add_rule", dry_run |-> dry_run,
                      after_heading |-> after_heading]
    /\ sc_pc' = "load"
    /\ sc_adf' = <<>>
    /\ sc_version' = 0
    /\ sc_calls' = 0
    /\ sc_fetches' = 0
    /\ sc_exit' = -1
    /\ requests' = <<>>
    /\ UNCHANGED <<st_version, st_body, st_others, rt_vars, bk_vars, ep_vars, ext_vars>>

\* load_page_for_modification
ScLoad ==
    /\ sc_pc = "load"
    /\ sc_adf' = st_body
    /\ sc_version' = st_version
    /\ sc_fetches' = sc_fetches + 1
    /\ sc_pc' = "modify"
    /\ UNCHANGED <<sc_args, sc_calls, sc_exit, sc_runs, st_vars, rt_vars, bk_vars, ep_vars, ext_vars>>

\* get_auth or get_page_adf raises: except Exception, sys.exit(1)
ScLoadRaises ==
    /\ sc_pc = "load"
    /\ sc_fetches' = sc_fetches + 1
    /\ ScExit(1)
    /\ UNCHANGED <<sc_args, sc_adf, sc_version, sc_calls, sc_runs, st_vars, rt_vars,
                   bk_vars, ep_vars, ext_vars>>

\* success = modify_fn(adf); if not success: sys.exit(1)
ScModify ==
    /\ sc_pc = "modify"
    /\ sc_args.script = "add_rule"
    /\ sc_calls' = sc_calls + 1
    /\ \E id \in LocalIds :
          LET r == add_rule(sc_adf, sc_args.after_heading, id)
          IN  /\ sc_adf' = r.adf
              /\ IF r.success
                 THEN sc_pc' = "modified" /\ sc_exit' = sc_exit
                 ELSE ScExit(1)
    /\ UNCHANGED <<sc_args, sc_version, sc_fetches, sc_runs, st_vars, rt_vars, bk_vars,
                   ep_vars, ext_vars>>

\* if dry_run: sys.exit(0)
ScDryRun ==
    /\ sc_pc = "modified"
    /\ sc_args.dry_run
    /\ ScExit(0)
    /\ UNCHANGED <<sc_args, sc_adf, sc_version, sc_calls, sc_fetches, sc_runs, st_vars,
                   rt_vars, bk_vars, ep_vars, ext_vars>>

\* save_modified_page -> update_page_adf: the store takes the update when its
\* number is the store's version + 1 and answers an error otherwise
\* (raise_for_status, except Exception, sys.exit(1))
ScSave ==
    /\ sc_pc = "modified"
    /\ ~sc_args.dry_run
    /\ LET number == payload_version_number(sc_version)
           accepted == number = st_version + 1
       IN  /\ requests' = Append(requests,
                             Request("script", TRUE, number, sc_version, sc_adf, accepted))
           /\ IF accepted
              THEN st_body' = sc_adf /\ st_version' = number /\ ScExit(0)
              ELSE UNCHANGED <<st_body, st_version>> /\ ScExit(1)
    /\ UNCHANGED <<sc_args, sc_adf, sc_version, sc_calls, sc_fetches, sc_runs, st_others,
                   rt_vars, bk_vars, ep_vars, ext_vars>>

\* the request does not reach the store
ScSaveRaises ==
    /\ sc_pc = "modified"
    /\ ~sc_args.dry_run
    /\ requests' = Append(requests,
                      Request("script", TRUE, payload_version_number(sc_version),
                              sc_version, sc_adf, FALSE))
    /\ ScExit(1)
    /\ UNCHANGED <<sc_args, sc_adf, sc_version, sc_calls, sc_fetches, sc_runs, st_version,
                   st_body, st_others, rt_vars, bk_vars, ep_vars, ext_vars>>

ScNext ==
    \/ ScStart
    \/ ScLoad
    \/ ScLoadRaises
    \/ ScModify
    \/ ScDryRun
    \/ ScSave
    \/ ScSaveRaises
    \/ OtherWrite

SpecScript == ScInit /\ [][ScNext]_vars

\* C4: an invocation calls the mutator once, sends at most one update, with
\* number = fetched version + 1, and a refused update ends it with status 1
\* without another read or request
C4_OneMutationOneUpdate ==
    /\ sc_calls <= 1
    /\ sc_fetches <= 1
    /\ Len(requests) <= 1
    /\ \A i \in 1..Len(requests) :
          requests[i].has_version /\ requests[i].number = sc_version + 1
    /\ sc_pc \in {"modified", "exited"} /\ sc_version # 0 => sc_calls = 1
    /\ sc_pc = "exited" /\ requests # <<>> /\ ~requests[1].accepted => sc_exit = 1
    /\ sc_pc = "exited" /\ sc_exit = 0 /\ ~sc_args.dry_run =>
          requests # <<>> /\ requests[1].accepted

\* an invocation whose update the store refused after another writer's update
C4_Witness ==
    /\ sc_pc = "exited"
    /\ sc_exit = 1
    /\ sc_calls = 1
    /\ Len(requests) = 1
    /\ ~requests[1].accepted
    /\ requests[1].at # requests[1].seen

(***************************************************************************)
(* MCPJsonDiffRoundtrip: edit_page step by step, rollback_page, and the    *)
(* helper process_confluence_edit, against the store and the backup        *)
(* directory, with other writers                                           *)
(***************************************************************************)
\* the page the controller is called for
ThePage == "p1"

EditDocs ==
    {Doc(<<Paragraph(<<TextNode(tAB)>>)>>),
     Doc(<<Paragraph(<<TextNode(tATrail)>>)>>),
     Doc(<<Paragraph(<<TextNode(tAB)>>), Panel(<<Paragraph(<<TextNode(tATrail)>>)>>)>>),
     Doc(<<Paragraph(<<[type |-> "text"]>>)>>),
     [type |-> "paragraph", content |-> <<TextNode(tAB)>>],
     Doc(<<[type |-> "panel", content |-> <<Paragraph(<<TextNode(tAB)>>)>>]>>)}

\* if validation_errors: / if errors:
validation_ignored(validation_errors) == FALSE

validation_aborts(validation_errors) == validation_errors # <<>>

EpInit ==
    /\ st_version = 1
    /\ st_body \in EditDocs
    /\ st_others = 0
    /\ requests = <<>>
    /\ BkIdle /\ EpIdle /\ RtIdle /\ ScIdle /\ ExtIdle

\* everything edit_page does not touch in a step that only moves its locals
EpFrame ==
    UNCHANGED <<rt_vars, sc_vars, pce_adf, pce_result, pce_backed_up, rb_result, ext_vars>>

EpLocals == <<ep_advanced, ep_include, ep_adf, ep_version, ep_backup_file, ep_patched,
              ep_error, ep_backup_data, ep_runs>>

EpReturn(result) ==
    /\ ep_result' = result
    /\ ep_pc' = "done"

\* an exception reaches the outer except of edit_page
EpCatch(step) ==
    /\ ep_error' = step
    /\ ep_pc' = "handler"
    /\ UNCHANGED ep_result

EpStart ==
    /\ ep_pc \in {"idle", "done"}
    /\ ep_runs < MaxInvocations
    /\ ep_runs' = ep_runs + 1
    /\ ep_advanced' \in BOOLEAN
    /\ ep_include' = FALSE
    /\ ep_adf' = <<>>
    /\ ep_version' = 0
    /\ ep_backup_file' = Unbound
    /\ ep_patched' = <<>>
    /\ ep_error' = "none"
    /\ ep_backup_data' = <<>>
    /\ ep_result' = NoResult
    /\ ep_pc' = "read"
    /\ requests' = <<>>
    /\ UNCHANGED <<st_version, st_body, st_others, bk_vars>>
    /\ EpFrame

\* _read_page returns
EpReadOk ==
    /\ ep_pc = "read"
    /\ ep_adf' = st_body
    /\ ep_version' = st_version
    /\ ep_pc' = "validate"
    /\ UNCHANGED <<ep_advanced, ep_include, ep_backup_file, ep_patched, ep_error,
                   ep_backup_data, ep_result, ep_runs, st_vars, bk_vars>>
    /\ EpFrame

\* _read_page raises and the message names auth, unauthorized or not found
EpReadAuthOrNotFound ==
    /\ ep_pc = "read"
    /\ \E error \in {"Authentication failed", "Page not found"} :
          EpReturn([status |-> "error", error |-> error])
    /\ UNCHANGED <<EpLocals, st_vars, bk_vars>>
    /\ EpFrame

\* _read_page raises anything else: raise, caught by the outer except
EpReadRaises ==
    /\ ep_pc = "read"
    /\ EpCatch("read")
    /\ UNCHANGED <<ep_advanced, ep_include, ep_adf, ep_version, ep_backup_file, ep_patched,
                   ep_backup_data, ep_runs, st_vars, bk_vars>>
    /\ EpFrame

\* Step 1.5
EpValidate ==
    /\ ep_pc = "validate"
    /\ LET validation_errors == validate_adf(ep_adf)
       IN  IF validation_aborts(validation_errors)
           THEN EpReturn([status |-> "error", error |-> "Invalid ADF format",
                          details |-> validation_errors])
           ELSE ep_pc' = "mode" /\ UNCHANGED ep_result
    /\ UNCHANGED <<EpLocals, st_vars, bk_vars>>
    /\ EpFrame

\* Step 2: include_macro_bodies; the user is asked when macros were found
EpChooseMode ==
    /\ ep_pc = "mode"
    /\ IF ep_advanced /\ detect_macros_with_content(ep_adf) > 0
       THEN \E choice \in {<<"1">>, <<"2">>} : ep_include' = (choice = <<"2">>)
       ELSE ep_include' = FALSE
    /\ ep_pc' = "backup"
    /\ UNCHANGED <<ep_advanced, ep_adf, ep_version, ep_backup_file, ep_patched, ep_error,
                   ep_backup_data, ep_result, ep_runs, st_vars, bk_vars>>
    /\ EpFrame

\* input() raises (EOFError on a closed stdin)
EpInputRaises ==
    /\ ep_pc = "mode"
    /\ ep_advanced /\ detect_macros_with_content(ep_adf) > 0
    /\ EpCatch("input")
    /\ UNCHANGED <<ep_advanced, ep_include, ep_adf, ep_version, ep_backup_file, ep_patched,
                   ep_backup_data, ep_runs, st_vars, bk_vars>>
    /\ EpFrame

\* Step 3, create_backup returns
EpBackupOk ==
    /\ ep_pc = "backup"
    /\ bk_clock' = bk_clock + 1
    /\ bk_files' = [bk_files EXCEPT ![ThePage] =
                       create_backup(@, ThePage, ep_adf, ep_version, bk_clock', bk_retention)]
    /\ bk_created' = [bk_created EXCEPT ![ThePage] = @ \cup {bk_clock'}]
    /\ ep_backup_file' = PathOf(strftime(bk_clock'))
    /\ ep_pc' = "diff"
    /\ UNCHANGED <<ep_advanced, ep_include, ep_adf, ep_version, ep_patched, ep_error,
                   ep_backup_data, ep_result, ep_runs, st_vars, bk_retention>>
    /\ EpFrame

\* the edit goes on without a backup in every mode
backup_never_required(advanced_mode, include_macro_bodies) == FALSE

\* if advanced_mode and include_macro_bodies: in the except of Step 3
backup_required(advanced_mode, include_macro_bodies) ==
    advanced_mode /\ include_macro_bodies

\* Step 3, create_backup raises before it has written the file
EpBackupRaises ==
    /\ ep_pc = "backup"
    /\ IF backup_required(ep_advanced, ep_include)
       THEN /\ EpReturn([status |-> "error", error |-> "Backup creation failed"])
            /\ UNCHANGED ep_backup_file
       ELSE /\ ep_backup_file' = NoneFile
            /\ ep_pc' = "diff"
            /\ UNCHANGED ep_result
    /\ UNCHANGED <<ep_advanced, ep_include, ep_adf, ep_version, ep_patched, ep_error,
                   ep_backup_data, ep_runs, st_vars, bk_vars>>
    /\ EpFrame

\* str(backup_file)
PathStr(backup_file) == IF backup_file.none THEN <<"None">> ELSE backup_file.name

\* Steps 4 to 8: extract, convert, the placeholder edit, diff, patch
EpDiff ==
    /\ ep_pc = "diff"
    /\ \E original_nodes \in {extract_text_nodes(ep_adf, ~ep_include)},
          markdown \in {convert_to_markdown(ep_adf, ep_include)} :
       \E edited_markdown \in {markdown} :
       \E changes \in {compute_changes(original_nodes, edited_markdown)} :
       \E patch \in {apply_text_changes(ep_adf, changes)} :
          IF changes = <<>>
          THEN /\ EpReturn([status |-> "no_changes", backup |-> PathStr(ep_backup_file)])
               /\ UNCHANGED <<ep_patched, ep_error>>
          ELSE IF patch.raised
          THEN EpCatch("patch") /\ UNCHANGED ep_patched
          ELSE /\ ep_patched' = [adf |-> patch.result, changes |-> Len(changes)]
               /\ ep_pc' = "write"
               /\ UNCHANGED <<ep_result, ep_error>>
    /\ UNCHANGED <<ep_advanced, ep_include, ep_adf, ep_version, ep_backup_file,
                   ep_backup_data, ep_runs, st_vars, bk_vars>>
    /\ EpFrame

\* _write_page: update_page(cloud_id, page_id, body, content_format), the
\* version fetched is not among the arguments; the store takes the body
StoreTakes(by, seen, body) ==
    /\ requests' = Append(requests, Request(by, FALSE, 0, seen, body, TRUE))
    /\ st_body' = body
    /\ st_version' = st_version + 1
    /\ UNCHANGED st_others

\* _write_page raises
StoreRefuses(by, seen, body) ==
    /\ requests' = Append(requests, Request(by, FALSE, 0, seen, body, FALSE))
    /\ UNCHANGED <<st_body, st_version, st_others>>

\* Step 9 returns
EpWriteOk ==
    /\ ep_pc = "write"
    /\ StoreTakes("edit_page", ep_version, ep_patched.adf)
    /\ EpReturn([status |-> "success", changes |-> ep_patched.changes,
                 backup |-> PathStr(ep_backup_file)])
    /\ UNCHANGED <<EpLocals, bk_vars>>
    /\ EpFrame

\* Step 9 raises
EpWriteRaises ==
    /\ ep_pc = "write"
    /\ StoreRefuses("edit_page", ep_version, ep_patched.adf)
    /\ EpCatch("write")
    /\ UNCHANGED <<ep_advanced, ep_include, ep_adf, ep_version, ep_backup_file, ep_patched,
                   ep_backup_data, ep_runs, bk_vars>>
    /\ EpFrame

\* the inner except of the handler: the message names backup_file, which
\* raises UnboundLocalError out of edit_page when it was never assigned
EpRollbackFailed(rollback_error) ==
    IF ep_backup_file.bound
    THEN EpReturn([status |-> "rollback_failed", error |-> ep_error,
                   rollback_error |-> rollback_error,
                   backup |-> PathStr(ep_backup_file)])
    ELSE EpReturn([status |-> "raised", error |-> "UnboundLocalError"])

\* the handler: backup_data = load_backup(page_id), the latest file of the page
EpHandlerLoad ==
    /\ ep_pc = "handler"
    /\ IF bk_files[ThePage] = {}
       THEN EpRollbackFailed("FileNotFoundError") /\ UNCHANGED ep_backup_data
       ELSE /\ ep_backup_data' = load_latest_backup(bk_files[ThePage]).data
            /\ ep_pc' = "rollback_write"
            /\ UNCHANGED ep_result
    /\ UNCHANGED <<ep_advanced, ep_include, ep_adf, ep_version, ep_backup_file, ep_patched,
                   ep_error, ep_runs, st_vars, bk_vars>>
    /\ EpFrame

\* the handler: _write_page(backup_data["adf_content"]) returns
EpRollbackWriteOk ==
    /\ ep_pc = "rollback_write"
    /\ StoreTakes("auto_rollback", ep_version, ep_backup_data.adf_content)
    /\ EpReturn([status |-> "rolled_back", error |-> ep_error])
    /\ UNCHANGED <<EpLocals, bk_vars>>
    /\ EpFrame

\* the handler: _write_page raises
EpRollbackWriteRaises ==
    /\ ep_pc = "rollback_write"
    /\ StoreRefuses("auto_rollback", ep_version, ep_backup_data.adf_content)
    /\ EpRollbackFailed("write")
    /\ UNCHANGED <<EpLocals, bk_vars>>
    /\ EpFrame

\* rollback_page: backups[int(choice) - 1]["timestamp"]; a negative index
\* counts from the end of the list
SelectBackup(backups, choice) ==
    IF Len(choice) # 1 \/ ~IsDigit(choice[1]) THEN [ok |-> FALSE, timestamp |-> <<>>]
    ELSE LET idx == ToInt(choice[1]) - 1
         IN  IF idx >= Len(backups) \/ idx < -Len(backups)
             THEN [ok |-> FALSE, timestamp |-> <<>>]
             ELSE [ok |-> TRUE,
                   timestamp |-> backups[IF idx < 0 THEN Len(backups) + idx + 1 ELSE idx + 1]]

\* a timestamp no file is called after
NoSuchTimestamp == <<"9", "9">>

\* rollback_page(cloud_id, page_id, timestamp)
RollbackPage ==
    /\ ep_pc \in {"idle", "done"}
    /\ ep_runs < MaxInvocations
    /\ ep_runs' = ep_runs + 1
    /\ \E timestamp \in {<<>>, NoSuchTimestamp} \cup Names(bk_files[ThePage]),
          choice \in {<<"x">>, <<"0">>, <<"1">>, <<"3">>},
          write_returns \in BOOLEAN :
          LET backups == list_backups(bk_files[ThePage])
              selected == IF timestamp # <<>> THEN [ok |-> TRUE, timestamp |-> timestamp]
                          ELSE SelectBackup(backups, choice)
              quiet == UNCHANGED <<st_vars>>
          IN  IF timestamp = <<>> /\ backups = <<>>
              THEN rb_result' = [status |-> "error", message |-> "No backups found"] /\ quiet
              ELSE IF ~selected.ok
              THEN rb_result' = [status |-> "error", message |-> "Invalid selection"] /\ quiet
              ELSE IF selected.timestamp \notin Names(bk_files[ThePage])
              THEN rb_result' = [status |-> "error", message |-> "FileNotFoundError"] /\ quiet
              ELSE LET backup_data == load_backup_at(bk_files[ThePage], selected.timestamp).data
                   IN  IF write_returns
                       THEN /\ StoreTakes("rollback_page", 0, backup_data.adf_content)
                            /\ rb_result' = [status |-> "success",
                                             timestamp |-> selected.timestamp]
                       ELSE /\ StoreRefuses("rollback_page", 0, backup_data.adf_content)
                            /\ rb_result' = [status |-> "error", message |-> "write"]
    /\ UNCHANGED <<ep_pc, ep_advanced, ep_include, ep_adf, ep_version, ep_backup_file,
                   ep_patched, ep_error, ep_backup_data, ep_result, bk_vars>>
    /\ UNCHANGED <<rt_vars, sc_vars, pce_adf, pce_result, pce_backed_up, ext_vars>>

\* process_confluence_edit(page_adf, ...) on the tree just fetched; it makes
\* no call to the store
ProcessConfluenceEdit ==
    /\ ep_pc \in {"idle", "done"}
    /\ ep_runs < MaxInvocations
    /\ ep_runs' = ep_runs + 1
    /\ pce_adf' = st_body
    /\ \E advanced_mode \in BOOLEAN, backup_returns \in BOOLEAN :
          LET page_adf == st_body
              errors == validate_adf(page_adf)
              macros == detect_macros_with_content(page_adf)
              include_macro_bodies == advanced_mode /\ macros > 0
              timestamp == strftime(bk_clock + 1)
          IN  IF validation_aborts(errors)
              THEN /\ pce_result' = [status |-> "error", error |-> "Invalid ADF format",
                                     validation_errors |-> errors]
                   /\ pce_backed_up' = FALSE
                   /\ UNCHANGED bk_vars
              ELSE IF ~backup_returns
              THEN /\ pce_result' = [status |-> "error", error |-> "Backup failed",
                                     macros |-> macros]
                   /\ pce_backed_up' = FALSE
                   /\ UNCHANGED bk_vars
              ELSE /\ bk_clock' = bk_clock + 1
                   /\ bk_files' = [bk_files EXCEPT ![ThePage] =
                                      create_backup(@, ThePage, page_adf, st_version,
                                                    bk_clock', DefaultRetentionLimit)]
                   /\ bk_created' = [bk_created EXCEPT ![ThePage] = @ \cup {bk_clock'}]
                   /\ UNCHANGED bk_retention
                   /\ pce_backed_up' = TRUE
                   /\ pce_result' =
                         [status |-> "ready_for_edit", macros |-> macros,
                          backup_file |-> timestamp,
                          markdown |-> convert_to_markdown(page_adf, include_macro_bodies),
                          original_text_nodes |->
                              Len(extract_text_nodes(page_adf, ~include_macro_bodies)),
                          mode |-> IF include_macro_bodies THEN "advanced" ELSE "safe"]
    /\ UNCHANGED <<ep_pc, ep_advanced, ep_include, ep_adf, ep_version, ep_backup_file,
                   ep_patched, ep_error, ep_backup_data, ep_result, rb_result>>
    /\ UNCHANGED <<st_vars, rt_vars, sc_vars, ext_vars>>

EpNext ==
    \/ EpStart
    \/ EpReadOk
    \/ EpReadAuthOrNotFound
    \/ EpReadRaises
    \/ EpValidate
    \/ EpChooseMode
    \/ EpInputRaises
    \/ EpBackupOk
    \/ EpBackupRaises
    \/ EpDiff
    \/ EpWriteOk
    \/ EpWriteRaises
    \/ EpHandlerLoad
    \/ EpRollbackWriteOk
    \/ EpRollbackWriteRaises
    \/ RollbackPage
    \/ ProcessConfluenceEdit
    \/ OtherWrite

SpecEdit == EpInit /\ [][EpNext]_vars

\* C3: every update request carries a version number, the one fetched plus
\* one, and no request the store took arrived after another writer's update of
\* the page the requester had not seen
C3_EveryWriteCarriesFetchedVersion ==
    \A i \in 1..Len(requests) :
       /\ requests[i].has_version
       /\ requests[i].number = requests[i].seen + 1
       /\ requests[i].accepted => requests[i].at = requests[i].seen

\* C5: the handler of edit_page runs only in an invocation that has created
\* its backup, the backup it writes back is that one, and a failed rollback
\* returns both errors and the path of the backup
C5_RollbackExactlyAfterBackupFromOwnBackup ==
    /\ ep_pc \in {"handler", "rollback_write"} =>
          ep_backup_file.bound /\ ~ep_backup_file.none
    /\ ep_pc = "rollback_write" => ep_backup_data.timestamp = ep_backup_file.name
    /\ ep_error # "none" /\ ep_pc = "done" =>
          ep_result.status \in {"rolled_back", "rollback_failed"}
    /\ ep_result.status = "rollback_failed" =>
          /\ ep_result.error = ep_error
          /\ ep_result.rollback_error # "none"
          /\ ep_result.backup = ep_backup_file.name
    /\ ep_result.status # "raised"

EpRequests == {i \in 1..Len(requests) : requests[i].by \in {"edit_page", "auto_rollback"}}

\* C6: an invocation of edit_page whose fetched tree validate_adf finds errors
\* in returns an error result, has no backup file and has sent no request; a
\* call of process_confluence_edit on such a tree returns an error result and
\* ran no create_backup; so no backup file ever holds such a tree
C6_InvalidTreeNoBackupNoWrite ==
    /\ ep_adf # <<>> /\ validate_adf(ep_adf) # <<>> =>
          /\ ep_pc \in {"validate", "done"}
          /\ ep_pc = "done" => ep_result.status = "error"
          /\ ~ep_backup_file.bound
          /\ EpRequests = {}
    /\ pce_adf # <<>> /\ validate_adf(pce_adf) # <<>> =>
          pce_result.status = "error" /\ ~pce_backed_up
    /\ \A p \in PageIds : \A f \in bk_files[p] : validate_adf(f.data.adf_content) = <<>>

\* both entry points have returned for a tree with errors
C6_Witness ==
    /\ ep_pc = "done"
    /\ ep_adf # <<>> /\ validate_adf(ep_adf) # <<>>
    /\ ep_result.status = "error"
    /\ pce_adf # <<>> /\ validate_adf(pce_adf) # <<>>
    /\ pce_result.status = "error"

(***************************************************************************)
(* Paths that do not resolve at apply time                                 *)
(***************************************************************************)
\* the value a path leads to, walking dicts by key and lists by index:
\* [ok, val], ok being FALSE when a key is missing or an index out of range
RECURSIVE Resolve(_, _, _)
Resolve(val, is_list, parts) ==
    IF parts = <<>> THEN [ok |-> TRUE, val |-> val, is_list |-> is_list]
    ELSE LET part == Head(parts)
         IN  IF is_list
             THEN IF IsDigit(part) /\ ToInt(part) < Len(val)
                  THEN Resolve(val[ToInt(part) + 1], FALSE, Tail(parts))
                  ELSE [ok |-> FALSE, val |-> <<>>, is_list |-> FALSE]
             ELSE IF ~IsDigit(part) /\ part \in DOMAIN val
                  THEN Resolve(val[part], part = "content", Tail(parts))
                  ELSE [ok |-> FALSE, val |-> <<>>, is_list |-> FALSE]

\* the path names the text field of a text leaf that exists in the tree
ResolvesToTextLeaf(adf, path) ==
    /\ path # <<>>
    /\ path[Len(path)] = "text"
    /\ LET r == Resolve(adf, FALSE, SubSeq(path, 1, Len(path) - 1))
       IN  r.ok /\ ~r.is_list /\ "type" \in DOMAIN r.val /\ r.val.type = "text"
           /\ "text" \in DOMAIN r.val

\* the tree with the changes whose path resolves applied, the others skipped
PatchedWhereResolved(adf, changes) ==
    LET step[k \in 0..Len(changes)] ==
            IF k = 0 THEN adf
            ELSE IF ResolvesToTextLeaf(step[k - 1], changes[k].path)
                 THEN apply_change(step[k - 1], changes[k]).val
                 ELSE step[k - 1]
    IN  step[Len(changes)]

\* C11: apply_text_changes raises nothing, and returns the tree in which
\* every change whose path resolves to a text leaf is applied and every other
\* change has had no effect
C11_UnresolvedPathIsSilentNoOp ==
    rt_pc = "patched" =>
       /\ ~rt_out.raised
       /\ rt_out.result = PatchedWhereResolved(rt_target, rt_changes)

(***************************************************************************)
(* insert_section.py: insert_section, with find_heading_index              *)
(***************************************************************************)
\* most top-level siblings of a page of headings
MaxSiblings == 4

\* node.get("attrs", {}).get("level", 1)
LevelOf(node) ==
    IF Has(node, "attrs") /\ "level" \in DOMAIN node.attrs THEN node.attrs.level ELSE 1

\* the insertion index taken right behind the anchor
just_after_anchor(content, heading_idx, target_level) == heading_idx + 1

\* the for/else of insert_section: the index of the first heading after
\* heading_idx (0-based) whose level is <= target_level, len(content) if none
section_end(content, heading_idx, target_level) ==
    LET stops == {i \in (heading_idx + 1)..(Len(content) - 1) :
                     /\ content[i + 1].type = "heading"
                     /\ LevelOf(content[i + 1]) <= target_level}
    IN  IF stops = {} THEN Len(content)
        ELSE CHOOSE i \in stops : \A j \in stops : i <= j

\* insert_section: [success, adf], adf being the tree as the call left it;
\* after_heading and content_text <<>> stand for None
insert_section(adf, after_heading, new_heading_text, level, content_text, hex) ==
    LET content == ContentOf(adf)
        heading_idx == find_heading_index(content, after_heading)
        insert_idx ==
            IF after_heading # <<>>
            THEN section_end(content, heading_idx, LevelOf(content[heading_idx + 1]))
            ELSE Len(content)
        new_heading == [type |-> "heading",
                        attrs |-> [level |-> level, localId |-> <<"heading-", hex>>],
                        content |-> <<TextNode(new_heading_text)>>]
        new_paragraph == [type |-> "paragraph",
                          attrs |-> [localId |-> <<"para-", hex>>],
                          content |-> <<TextNode(content_text)>>]
        with_heading == ListInsert(content, insert_idx, new_heading)
        with_both == IF content_text # <<>>
                     THEN ListInsert(with_heading, insert_idx + 1, new_paragraph)
                     ELSE with_heading
    IN  IF after_heading # <<>> /\ heading_idx = -1
        THEN [success |-> FALSE, adf |-> adf]
        ELSE [success |-> TRUE,
              adf |-> IF Has(adf, "content") THEN [adf EXCEPT !.content = with_both]
                      ELSE adf]

\* "a b c"
tABC == <<"a", " ", "b", " ", "c">>
tOverview == <<"Overview">>
tIntro == <<"intro">>
tRisks == <<"Risks">>
tScope == <<"Scope">>
tInScope == <<"in scope">>

\* os.urandom(4).hex()
RandomHex == {"0a"}

\* the siblings of a page: headings of three levels and a paragraph
SiblingBlocks ==
    {Heading(l, <<TextNode(tBC)>>) : l \in 1..3}
    \cup {Heading(1, <<TextNode(tAB)>>), Heading(2, <<TextNode(tAB)>>),
          Heading(1, <<TextNode(tABC)>>),
          Paragraph(<<TextNode(tIntro)>>)}

OverviewDoc ==
    Doc(<<Heading(1, <<TextNode(tOverview)>>), Paragraph(<<TextNode(tIntro)>>),
          Heading(2, <<TextNode(tRisks)>>)>>)

HeadingDocs == {Doc(bs) : bs \in SeqsUpTo(SiblingBlocks, MaxSiblings)} \cup {OverviewDoc}

\* --after-heading / the query: absent, on the page, on no page
HeadingQueries == {<<>>, tAB, tBC, tOverview, <<"z">>}

SectionFrame == UNCHANGED <<rt_vars, bk_vars, st_vars, sc_vars, ep_vars, md_vars, bt_vars>>

SectionInit ==
    /\ mu_pc = "start"
    /\ mu_adf \in HeadingDocs
    /\ mu_call = <<>>
    /\ mu_out = <<>>
    /\ RtIdle /\ BkIdle /\ StIdle /\ ScIdle /\ EpIdle /\ MdIdle /\ BtIdle

\* find_heading_index(content, heading_text)
FindHeadingIndex ==
    /\ mu_pc = "start"
    /\ \E heading_text \in HeadingQueries \ {<<>>} :
          /\ mu_call' = [fn |-> "find_heading_index", heading_text |-> heading_text]
          /\ mu_out' = [index |-> find_heading_index(mu_adf.content, heading_text),
                        adf |-> mu_adf]
    /\ mu_pc' = "done"
    /\ UNCHANGED mu_adf
    /\ SectionFrame

\* insert_section(adf, after_heading, new_heading_text, level, content_text)
InsertSection ==
    /\ mu_pc = "start"
    /\ \E after_heading \in HeadingQueries, level \in {2, 3},
          content_text \in {<<>>, tInScope}, hex \in RandomHex :
          /\ mu_call' = [fn |-> "insert_section", after_heading |-> after_heading,
                         new_heading_text |-> tScope, level |-> level,
                         content_text |-> content_text]
          /\ mu_out' = insert_section(mu_adf, after_heading, tScope, level, content_text, hex)
    /\ mu_pc' = "done"
    /\ UNCHANGED mu_adf
    /\ SectionFrame

SectionNext == FindHeadingIndex \/ InsertSection

SpecSection == SectionInit /\ [][SectionNext]_vars

\* the call that has returned
Called(fn) == mu_pc = "done" /\ mu_call.fn = fn

IsHeading(node) == node.type = "heading"

\* node is the heading the call asked for
IsNewHeading(node, call) ==
    /\ node.type = "heading"
    /\ node.attrs.level = call.level
    /\ node.content = <<TextNode(call.new_heading_text)>>

\* node is the paragraph the call asked for
IsNewParagraph(node, call) ==
    /\ node.type = "paragraph"
    /\ node.content = <<TextNode(call.content_text)>>

\* after is content with the call's heading, and its paragraph if one was
\* asked for, put in at 0-based index k
InsertedAt(before, after, k, call) ==
    LET n == IF call.content_text # <<>> THEN 2 ELSE 1
    IN  /\ Len(after) = Len(before) + n
        /\ SubSeq(after, 1, k) = SubSeq(before, 1, k)
        /\ SubSeq(after, k + n + 1, Len(after)) = SubSeq(before, k + 1, Len(before))
        /\ IsNewHeading(after[k + 1], call)
        /\ n = 2 => IsNewParagraph(after[k + 2], call)

\* C12: with an anchor that is found, the new heading (and paragraph) go in
\* at the first later sibling heading of level <= the anchor's, past every
\* deeper heading, or at the end when there is no such heading
C12_SectionInsertedAtSectionEnd ==
    Called("insert_section") /\ mu_call.after_heading # <<>> /\ mu_out.success =>
       LET content == mu_adf.content
           anchor == find_heading_index(content, mu_call.after_heading)
           closes(i) == /\ IsHeading(content[i + 1])
                        /\ LevelOf(content[i + 1]) <= LevelOf(content[anchor + 1])
       IN  \E k \in (anchor + 1)..Len(content) :
              /\ k = Len(content) \/ closes(k)
              /\ \A j \in (anchor + 1)..(k - 1) : ~closes(j)
              /\ InsertedAt(content, mu_out.adf.content, k, mu_call)

\* headings at levels 1, 2, 3, 2, the anchor at index 1: the new heading is
\* at index 3
C12_Witness ==
    /\ Called("insert_section")
    /\ Len(mu_adf.content) = 4
    /\ \A i \in 1..4 : IsHeading(mu_adf.content[i])
    /\ [i \in 1..4 |-> LevelOf(mu_adf.content[i])] = <<1, 2, 3, 2>>
    /\ find_heading_index(mu_adf.content, mu_call.after_heading) = 1
    /\ mu_out.success
    /\ IsNewHeading(mu_out.adf.content[4], mu_call)

\* C13: on [heading Overview (1), paragraph intro, heading Risks (2)],
\* insert_section after Overview of Scope (2) with content puts the new heading
\* and paragraph right behind Overview, before Risks
C13_ScopeRightAfterOverview ==
    /\ Called("insert_section")
    /\ mu_adf = OverviewDoc
    /\ mu_call.after_heading = tOverview
    /\ mu_call.level = 2
    /\ mu_call.content_text = tInScope
    => /\ mu_out.success
       /\ InsertedAt(mu_adf.content, mu_out.adf.content, 1, mu_call)

\* C14: a query that is the full text of a top-level heading gets the index
\* of a heading with that full text
C14_VerbatimHeadingFound ==
    Called("find_heading_index") =>
       LET content == mu_adf.content
           verbatim == {i \in 1..Len(content) :
                           /\ IsHeading(content[i])
                           /\ heading_full_text(content[i]) = mu_call.heading_text}
       IN  verbatim # {} => (mu_out.index + 1) \in verbatim

(***************************************************************************)
(* confluence_adf_utils: find_node_recursive, find_table_recursive,        *)
(* find_row_containing_text, create_table_row, insert_table_row            *)
(*                                                                         *)
(* The functions hand out the node they find and the caller changes it in  *)
(* place; the model hands out the place of the node, the 1-based indices   *)
(* into the content lists that lead to it, and rebuilds the tree.          *)
(***************************************************************************)
\* most rows of a table
MaxRows == 3

NotFound == [found |-> FALSE, path |-> <<>>]

\* the first of the results that found something
RECURSIVE FirstFound(_)
FirstFound(results) ==
    IF results = <<>> THEN NotFound
    ELSE IF Head(results).found THEN Head(results)
    ELSE FirstFound(Tail(results))

\* find_node_recursive without search_fn: depth first, a node before its
\* children; of the values of a node only content holds nodes
RECURSIVE find_node_recursive(_, _)
find_node_recursive(node, node_type) ==
    IF node.type = node_type THEN [found |-> TRUE, path |-> <<>>]
    ELSE LET kids == ContentOf(node)
         IN  FirstFound([i \in 1..Len(kids) |->
                 LET r == find_node_recursive(kids[i], node_type)
                 IN  [found |-> r.found, path |-> <<i>> \o r.path]])

\* the part of find_table_recursive and find_list_recursive they share
find_after_heading(adf, heading_text, node_type) ==
    IF heading_text # <<>>
    THEN LET content == ContentOf(adf)
             heading_idx == find_heading_index(content, heading_text)
         IN  IF heading_idx = -1 THEN NotFound
             ELSE FirstFound([k \in 1..(Len(content) - heading_idx - 1) |->
                     LET i == heading_idx + 1 + k
                         r == find_node_recursive(content[i], node_type)
                     IN  [found |-> r.found, path |-> <<i>> \o r.path]])
    ELSE find_node_recursive(adf, node_type)

find_table_recursive(adf, heading_text) == find_after_heading(adf, heading_text, "table")

\* the node a place leads to
RECURSIVE NodeAtPath(_, _)
NodeAtPath(node, path) ==
    IF path = <<>> THEN node ELSE NodeAtPath(node.content[Head(path)], Tail(path))

\* the tree with the node at a place replaced
RECURSIVE ReplaceAtPath(_, _, _)
ReplaceAtPath(node, path, new) ==
    IF path = <<>> THEN new
    ELSE [node EXCEPT !.content[Head(path)] = ReplaceAtPath(@, Tail(path), new)]

\* the text of the text nodes of the paragraphs of a cell, concatenated
cell_text(cell) ==
    LET paras == ContentOf(cell)
    IN  Concat([p \in 1..Len(paras) |->
           LET kids == ContentOf(paras[p])
           IN  Concat([t \in 1..Len(kids) |->
                  IF kids[t].type = "text" /\ Has(kids[t], "text") THEN kids[t].text
                  ELSE <<>>])])

\* the rows find_row_containing_text accepts, 0-based
matching_rows(table_node, search_text) ==
    LET table_content == ContentOf(table_node)
    IN  {i \in 0..(Len(table_content) - 1) :
            /\ table_content[i + 1].type = "tableRow"
            /\ ContentOf(table_content[i + 1]) # <<>>
            /\ Contains(cell_text(table_content[i + 1].content[1]), search_text)}

\* the scan goes on to the last row that matches
find_last_row_containing_text(table_node, search_text) ==
    LET rows == matching_rows(table_node, search_text)
    IN  IF rows = {} THEN -1 ELSE CHOOSE i \in rows : \A j \in rows : j <= i

\* find_row_containing_text: the row index, -1 for None
find_row_containing_text(table_node, search_text) ==
    LET rows == matching_rows(table_node, search_text)
    IN  IF rows = {} THEN -1 ELSE CHOOSE i \in rows : \A j \in rows : i <= j

\* create_table_row
create_table_row(cells, hex) ==
    [type |-> "tableRow",
     attrs |-> [localId |-> <<"added-", hex>>],
     content |-> [i \in 1..Len(cells) |->
        [type |-> "tableCell",
         attrs |-> [colspan |-> 1, rowspan |-> 1, localId |-> <<"cell-", ToStr(i - 1), hex>>],
         content |-> <<[type |-> "paragraph",
                        attrs |-> [localId |-> <<"para-", ToStr(i - 1), hex>>],
                        content |-> <<TextNode(cells[i])>>]>>]]]

\* insert_table_row: [success, adf]
insert_table_row(adf, table_heading, after_row_containing, new_row_cells, hex) ==
    LET table == find_table_recursive(adf, table_heading)
        table_node == NodeAtPath(adf, table.path)
        insert_after_index == find_row_containing_text(table_node, after_row_containing)
        new_row == create_table_row(new_row_cells, hex)
        new_table == [table_node EXCEPT
                         !.content = ListInsert(@, insert_after_index + 1, new_row)]
    IN  IF ~table.found THEN [success |-> FALSE, adf |-> adf]
        ELSE IF insert_after_index = -1 THEN [success |-> FALSE, adf |-> adf]
        ELSE [success |-> TRUE, adf |-> ReplaceAtPath(adf, table.path, new_table)]

tGitHub == <<"Git", "Hub">>
tGitLab == <<"Git", "Lab">>

Cell(type, texts) ==
    [type |-> type,
     content |-> <<Paragraph([i \in 1..Len(texts) |-> TextNode(texts[i])])>>]

Row(cells) == [type |-> "tableRow", content |-> cells]

\* rows: a header row, GitHub, GitLab, GitHub with its text in two text
\* nodes, and a row whose second cell alone names GitHub
TableRows ==
    {Row(<<Cell("tableHeader", <<<<"Name">>>>), Cell("tableHeader", <<<<"Owner">>>>)>>),
     Row(<<Cell("tableCell", <<tGitHub>>), Cell("tableCell", <<<<"x">>>>)>>),
     Row(<<Cell("tableCell", <<tGitLab>>), Cell("tableCell", <<<<"y">>>>)>>),
     Row(<<Cell("tableCell", <<<<"Git">>, <<"Hub">>>>), Cell("tableCell", <<<<"z">>>>)>>),
     Row(<<Cell("tableCell", <<<<"w">>>>), Cell("tableCell", <<tGitHub>>)>>)}

Table(rows) == [type |-> "table", content |-> rows]

Tables == {Table(rows) : rows \in SeqsUpTo(TableRows, MaxRows)}

\* a table right behind its heading, inside an expand behind it, and behind
\* another table
TableDocs ==
    {Doc(<<Heading(2, <<TextNode(tAB)>>), t>>) : t \in Tables}
    \cup {Doc(<<Heading(2, <<TextNode(tAB)>>), Paragraph(<<TextNode(tIntro)>>),
                Expand(<<t>>)>>) : t \in Tables}
    \cup {Doc(<<Table(<<>>), Heading(2, <<TextNode(tAB)>>), t>>) : t \in Tables}

\* --cells
NewRowCells == {<<<<"X">>, <<"Y">>>>, <<<<"X">>>>}

TableFrame == UNCHANGED <<rt_vars, bk_vars, st_vars, sc_vars, ep_vars, md_vars, bt_vars>>

TableInit ==
    /\ mu_pc = "start"
    /\ mu_adf \in TableDocs
    /\ mu_call = <<>>
    /\ mu_out = <<>>
    /\ RtIdle /\ BkIdle /\ StIdle /\ ScIdle /\ EpIdle /\ MdIdle /\ BtIdle

\* insert_table_row(adf, table_heading, after_row_containing, new_row_cells)
InsertTableRow ==
    /\ mu_pc = "start"
    /\ \E table_heading \in {<<>>, tAB, <<"z">>},
          after_row_containing \in {tGitHub, tGitLab, <<"Git">>, <<"q">>},
          new_row_cells \in NewRowCells, hex \in RandomHex :
          /\ mu_call' = [fn |-> "insert_table_row", table_heading |-> table_heading,
                         after_row_containing |-> after_row_containing,
                         new_row_cells |-> new_row_cells]
          /\ mu_out' = insert_table_row(mu_adf, table_heading, after_row_containing,
                                        new_row_cells, hex)
    /\ mu_pc' = "done"
    /\ UNCHANGED mu_adf
    /\ TableFrame

TableNext == InsertTableRow

SpecTable == TableInit /\ [][TableNext]_vars

\* the text of the first cell of a row, "" for a row without cells
FirstCellText(row) ==
    IF ContentOf(row) = <<>> THEN <<>> ELSE extract_text(row.content[1])

\* the texts of the cells of a row
CellTexts(row) == [i \in 1..Len(row.content) |-> extract_text(row.content[i])]

\* the tables of a tree, by place
RECURSIVE TablePlaces(_)
TablePlaces(node) ==
    (IF node.type = "table" THEN {<<>>} ELSE {})
    \cup UNION {{<<i>> \o p : p \in TablePlaces(node.content[i])} :
                  i \in 1..Len(ContentOf(node))}

\* C15: a successful insert_table_row changes one table only, by one new row
\* of the caller's cells right behind the first row whose first cell contains
\* the anchor, every old row kept in its order
C15_RowInsertedAfterFirstMatch ==
    Called("insert_table_row") /\ mu_out.success =>
       \E place \in TablePlaces(mu_adf) :
          LET before == NodeAtPath(mu_adf, place).content
              after == NodeAtPath(mu_out.adf, place).content
              hit(r) == /\ before[r].type = "tableRow"
                        /\ Contains(FirstCellText(before[r]), mu_call.after_row_containing)
          IN  /\ mu_adf = ReplaceAtPath(mu_out.adf, place, NodeAtPath(mu_adf, place))
              /\ Len(after) = Len(before) + 1
              /\ \E r \in 1..Len(before) :
                    /\ hit(r)
                    /\ \A q \in 1..(r - 1) : ~hit(q)
                    /\ SubSeq(after, 1, r) = SubSeq(before, 1, r)
                    /\ SubSeq(after, r + 2, Len(after)) = SubSeq(before, r + 1, Len(before))
                    /\ after[r + 1].type = "tableRow"
                    /\ CellTexts(after[r + 1]) = mu_call.new_row_cells

\* rows GitHub, GitLab, anchor GitHub, one cell for a table of two columns:
\* GitHub, the new row, GitLab
C15_Witness ==
    /\ Called("insert_table_row")
    /\ mu_call.after_row_containing = tGitHub
    /\ mu_call.new_row_cells = <<<<"X">>>>
    /\ mu_out.success
    /\ \E place \in TablePlaces(mu_adf) :
          /\ Len(NodeAtPath(mu_adf, place).content) = 2
          /\ Len(NodeAtPath(mu_out.adf, place).content) = 3
          /\ [i \in 1..2 |-> FirstCellText(NodeAtPath(mu_adf, place).content[i])]
                = <<tGitHub, tGitLab>>
          /\ [i \in 1..3 |-> FirstCellText(NodeAtPath(mu_out.adf, place).content[i])]
                = <<tGitHub, <<"X">>, tGitLab>>

(***************************************************************************)
(* add_media.py (add_media_group.py runs the same steps with a list of     *)
(* images): the dry run is answered before anything is read, the image is  *)
(* uploaded before the page is read and the heading looked for             *)
(***************************************************************************)
\* add_media: [success, adf]; after_heading <<>> is None, width 0 is None
add_media(adf, attachment_id, width, after_heading, hex) ==
    LET content == ContentOf(adf)
        base_attrs == [id |-> attachment_id, type |-> "file", collection |-> <<>>,
                       localId |-> <<"media-", hex>>]
        media_attrs == IF width # 0
                       THEN [id |-> attachment_id, type |-> "file", collection |-> <<>>,
                             localId |-> <<"media-", hex>>, width |-> width]
                       ELSE base_attrs
        media_single_node ==
            [type |-> "mediaSingle",
             attrs |-> [layout |-> "center", localId |-> <<"mediasingle-", hex>>],
             content |-> <<[type |-> "media", attrs |-> media_attrs]>>]
        heading_idx == find_heading_index(content, after_heading)
    IN  IF after_heading # <<>>
        THEN IF heading_idx = -1 THEN [success |-> FALSE, adf |-> adf]
             ELSE [success |-> TRUE,
                   adf |-> [adf EXCEPT
                               !.content = ListInsert(content, heading_idx + 1,
                                                      media_single_node)]]
        ELSE [success |-> TRUE,
              adf |-> [adf EXCEPT !.content = Append(content, media_single_node)]]

MdFrame == UNCHANGED <<rt_vars, bk_vars, ep_vars, mu_vars, bt_vars>>

\* the command line of add_media.py
MdStart ==
    /\ sc_pc \in {"idle", "exited"}
    /\ sc_runs < MaxInvocations
    /\ sc_runs' = sc_runs + 1
    /\ \E dry_run \in BOOLEAN, after_heading \in AfterHeadings, at_end \in BOOLEAN,
          image_exists \in BOOLEAN :
          sc_args' = [script |-> "add_media", dry_run |-> dry_run,
                      after_heading |-> after_heading, at_end |-> at_end,
                      image_exists |-> image_exists]
    /\ sc_pc' = "check_args"
    /\ sc_adf' = <<>>
    /\ sc_version' = 0
    /\ sc_calls' = 0
    /\ sc_fetches' = 0
    /\ sc_exit' = -1
    /\ requests' = <<>>
    /\ UNCHANGED <<st_version, st_body, st_others, uploads>>
    /\ MdFrame

\* main up to the dry run: the argument checks, then sys.exit(0) on --dry-run
MdCheckArgs ==
    /\ sc_pc = "check_args"
    /\ IF sc_args.after_heading = <<>> /\ ~sc_args.at_end THEN ScExit(1)
       ELSE IF ~sc_args.image_exists THEN ScExit(1)
       ELSE IF sc_args.dry_run THEN ScExit(0)
       ELSE sc_pc' = "upload" /\ UNCHANGED sc_exit
    /\ UNCHANGED <<sc_args, sc_adf, sc_version, sc_calls, sc_fetches, sc_runs, st_vars,
                   uploads>>
    /\ MdFrame

\* upload_attachment returns the attachment id
MdUploadOk ==
    /\ sc_pc = "upload"
    /\ uploads' = Append(uploads, [run |-> sc_runs, stored |-> TRUE])
    /\ sc_pc' = "load"
    /\ UNCHANGED <<sc_args, sc_adf, sc_version, sc_calls, sc_fetches, sc_exit, sc_runs,
                   st_vars>>
    /\ MdFrame

\* upload_attachment returns None or raises: sys.exit(1)
MdUploadFails ==
    /\ sc_pc = "upload"
    /\ uploads' = Append(uploads, [run |-> sc_runs, stored |-> FALSE])
    /\ ScExit(1)
    /\ UNCHANGED <<sc_args, sc_adf, sc_version, sc_calls, sc_fetches, sc_runs, st_vars>>
    /\ MdFrame

\* execute_modification: success = modify_fn(adf), modify being add_media
MdModify ==
    /\ sc_pc = "modify"
    /\ sc_args.script = "add_media"
    /\ sc_calls' = sc_calls + 1
    /\ \E hex \in RandomHex, width \in {0, 300} :
          LET r == add_media(sc_adf, <<"att1">>, width, sc_args.after_heading, hex)
          IN  /\ sc_adf' = r.adf
              /\ IF r.success
                 THEN sc_pc' = "modified" /\ sc_exit' = sc_exit
                 ELSE ScExit(1)
    /\ UNCHANGED <<sc_args, sc_version, sc_fetches, sc_runs, st_vars, uploads>>
    /\ MdFrame

ScriptsNext ==
    \/ ScNext
    \/ MdStart
    \/ MdCheckArgs
    \/ MdUploadOk
    \/ MdUploadFails
    \/ MdModify

\* runs of add_rule.py and add_media.py, one after the other
SpecScripts == ScInit /\ [][ScriptsNext]_vars

\* the heading asked for is not on the page
LocatorFails(adf, after_heading) ==
    after_heading # <<>> /\ find_heading_index(ContentOf(adf), after_heading) = -1

\* what the mutator of the running script returns on a tree
MutatorOn(adf) ==
    IF sc_args.script = "add_rule"
    THEN add_rule(adf, sc_args.after_heading, "rule-0a")
    ELSE add_media(adf, <<"att1">>, 0, sc_args.after_heading, "0a")

\* the uploads of the running invocation that the store has taken
UploadsOfRun == {i \in 1..Len(uploads) : uploads[i].run = sc_runs /\ uploads[i].stored}

\* C16: when the heading is not found the mutator returns False and leaves
\* the tree as it was, and the script ends with a nonzero status having sent
\* neither a page update nor an attachment upload
C16_LocatorFailureSendsNothing ==
    /\ sc_pc = "modify" /\ LocatorFails(sc_adf, sc_args.after_heading) =>
          ~MutatorOn(sc_adf).success /\ MutatorOn(sc_adf).adf = sc_adf
    /\ sc_pc = "exited" /\ sc_calls = 1 /\ LocatorFails(sc_adf, sc_args.after_heading) =>
          /\ sc_exit = 1
          /\ requests = <<>>
          /\ UploadsOfRun = {}

\* the command line passes the checks made before the dry run, and the page
\* could be read if the script reads it
DryRunDecided ==
    /\ sc_args.script = "add_rule" => sc_version # 0
    /\ sc_args.script = "add_media" =>
          (sc_args.after_heading # <<>> \/ sc_args.at_end) /\ sc_args.image_exists

\* C17: a dry run sends no update and no upload and writes no backup, and
\* its exit status is 0 when the heading asked for is on the page and 1 when
\* it is not
C17_DryRunSendsNothingExitTellsLocated ==
    sc_pc = "exited" /\ sc_args.dry_run =>
       /\ requests = <<>>
       /\ UploadsOfRun = {}
       /\ \A p \in PageIds : bk_files[p] = {}
       /\ DryRunDecided =>
             (sc_exit = 1 <=> LocatorFails(st_body, sc_args.after_heading))

\* ---------------------------------------------------------------------
\* The batch image generator: generate_batch.py and generate_images.py
\* ---------------------------------------------------------------------

\* the longest slides array of a configuration
MaxSlides == 3

\* json.dump hands the text to the file in pieces: the pieces of one dump
MaxChunks == 2

\* the value of slide['number']
SlideNumbers == {1, 2}

\* config['slides'] after load_config: a non-empty array
SlideConfigs == SeqsUpTo(SlideNumbers, MaxSlides)

\* output_dir / f"slide-{slide_num:02d}.{output_format}"
output_path(slide_num) == <<"slide", slide_num>>

\* [c['path'] for c in completed]
paths(completed) == [k \in 1..Len(completed) |-> completed[k].path]

\* the dict write_progress dumps (started_at and updated_at are clock readings)
progress(current, total, status, completed, failed) ==
    [current |-> current, total |-> total, status |-> status,
     completed |-> completed, failed |-> failed]

\* the dict write_results dumps (the three time fields are clock readings)
results(completed, failed, errors) ==
    [completed |-> Len(completed), failed |-> Len(failed),
     total |-> Len(completed) + Len(failed),
     outputs |-> completed, errors |-> errors]

\* a file that holds the first written pieces of the dumped text of data;
\* <<>> stands for a file that does not exist
FileOf(data, written) == [data |-> data, written |-> written]

\* json.load of a file by another process
read_file(file) ==
    IF file = <<>> THEN "absent"
    ELSE IF file.written = MaxChunks THEN "snapshot" ELSE "partial"

\* the file write_progress opens for writing
progress_file_itself == "progress"

temp_file == "tmp"

\* Path.replace(target): one rename
replace(fs, src, dst) ==
    [f \in FileNames |-> IF f = dst THEN fs[src] ELSE IF f = src THEN <<>> ELSE fs[f]]

\* Path.unlink(missing_ok=True)
unlink(fs, name) == [fs EXCEPT ![name] = <<>>]

exit_always_zero(completed) == 0

\* sys.exit(0 if completed else 1)
exit_status(completed) == IF completed # <<>> THEN 0 ELSE 1

\* what an earlier run of generate_batch.py left under the temporary directory
LeftBehind ==
    [f \in FileNames |->
        IF f = "progress"
        THEN FileOf(progress(1, 1, "completed", <<output_path(1)>>, <<>>), MaxChunks)
        ELSE IF f = "results"
        THEN FileOf(results(<<[slide |-> 1, path |-> output_path(1)]>>, <<>>, <<>>), MaxChunks)
        ELSE <<>>]

BtFrame == UNCHANGED <<rt_vars, bk_vars, st_vars, sc_vars, ep_vars, mu_vars, md_vars>>

BtInit ==
    /\ bt_entry \in {"generate_batch", "generate_images"}
    /\ bt_slides \in SlideConfigs
    /\ bt_pc = "start"
    /\ bt_wp = "none"
    /\ bt_i = 0
    /\ bt_completed = <<>>
    /\ bt_failed = <<>>
    /\ bt_errors = <<>>
    /\ bt_outcomes = <<>>
    /\ bt_stop = "none"
    /\ bt_exit = -1
    /\ files \in {[f \in FileNames |-> <<>>], LeftBehind}
    /\ polled = "never"
    /\ RtIdle /\ BkIdle /\ StIdle /\ ScIdle /\ EpIdle /\ MuIdle /\ MdIdle

\* main up to "Initialize tracking": the output directory cannot be made, no
\* API key is set, or the client cannot be built
BtSetupFails ==
    /\ bt_pc = "start"
    /\ bt_pc' = "exited"
    /\ bt_stop' = "setup"
    /\ bt_exit' = 1
    /\ UNCHANGED <<bt_entry, bt_slides, bt_wp, bt_i, bt_completed, bt_failed,
                   bt_errors, bt_outcomes, files, polled>>
    /\ BtFrame

\* completed = [], failed = [], errors = [] and the for loop is entered
BtStart ==
    /\ bt_pc = "start"
    /\ bt_pc' = "loop"
    /\ bt_completed' = <<>>
    /\ bt_failed' = <<>>
    /\ bt_errors' = <<>>
    /\ UNCHANGED <<bt_entry, bt_slides, bt_wp, bt_i, bt_outcomes, bt_stop,
                   bt_exit, files, polled>>
    /\ BtFrame

\* the arguments of the write_progress call main is at
ProgressNow ==
    IF bt_pc = "loop"
    THEN progress(bt_i, Len(bt_slides), <<"generating slide", bt_slides[bt_i + 1]>>,
                  paths(bt_completed), bt_failed)
    ELSE progress(Len(bt_slides), Len(bt_slides), "completed",
                  paths(bt_completed), bt_failed)

\* where main goes on after write_progress returns
AfterProgress == IF bt_pc = "loop" THEN "generate" ELSE "results"

BtLocals == UNCHANGED <<bt_entry, bt_slides, bt_i, bt_completed, bt_failed,
                        bt_errors, bt_outcomes, bt_stop, bt_exit>>

\* write_progress: open(temp_file, 'w') makes the file empty
WpOpen ==
    /\ bt_pc \in {"loop", "final"}
    /\ bt_wp = "none"
    /\ files' = [files EXCEPT ![temp_file] = FileOf(ProgressNow, 0)]
    /\ bt_wp' = "opened"
    /\ UNCHANGED <<bt_pc, polled>>
    /\ BtLocals
    /\ BtFrame

\* write_progress: json.dump writes the next piece
WpDump ==
    /\ bt_pc \in {"loop", "final"}
    /\ bt_wp = "opened"
    /\ files[temp_file].written < MaxChunks
    /\ files' = [files EXCEPT ![temp_file] = FileOf(@.data, @.written + 1)]
    /\ UNCHANGED <<bt_pc, bt_wp, polled>>
    /\ BtLocals
    /\ BtFrame

\* write_progress: the file is closed and temp_file.replace(PROGRESS_FILE)
WpReplace ==
    /\ bt_pc \in {"loop", "final"}
    /\ bt_wp = "opened"
    /\ files[temp_file].written = MaxChunks
    /\ files' = replace(files, temp_file, "progress")
    /\ bt_wp' = "none"
    /\ bt_pc' = AfterProgress
    /\ UNCHANGED polled
    /\ BtLocals
    /\ BtFrame

\* write_progress: open, a write or the rename raises; the warning is printed
\* and main goes on
WpRaises ==
    /\ bt_pc \in {"loop", "final"}
    /\ bt_wp \in {"none", "opened"}
    /\ bt_wp' = "none"
    /\ bt_pc' = AfterProgress
    /\ UNCHANGED <<files, polled>>
    /\ BtLocals
    /\ BtFrame

\* the rest of one turn of the for loop
AfterSlide == IF bt_i + 1 < Len(bt_slides) THEN "loop" ELSE "final"

\* generate_slide_gemini / generate_slide_imagen return (True, path, None)
BtSlideCompleted ==
    /\ bt_pc = "generate"
    /\ bt_outcomes' = Append(bt_outcomes, [index |-> bt_i, success |-> TRUE])
    /\ bt_completed' = Append(bt_completed,
                              [slide |-> bt_slides[bt_i + 1],
                               path |-> output_path(bt_slides[bt_i + 1])])
    /\ bt_i' = bt_i + 1
    /\ bt_pc' = AfterSlide
    /\ UNCHANGED <<bt_entry, bt_slides, bt_wp, bt_failed, bt_errors, bt_stop,
                   bt_exit, files, polled>>
    /\ BtFrame

\* generate_slide_gemini / generate_slide_imagen return (False, None, error)
BtSlideFailed ==
    /\ bt_pc = "generate"
    /\ bt_outcomes' = Append(bt_outcomes, [index |-> bt_i, success |-> FALSE])
    /\ bt_failed' = Append(bt_failed, bt_slides[bt_i + 1])
    /\ bt_errors' = Append(bt_errors, [slide |-> bt_slides[bt_i + 1], error |-> "error"])
    /\ bt_i' = bt_i + 1
    /\ bt_pc' = AfterSlide
    /\ UNCHANGED <<bt_entry, bt_slides, bt_wp, bt_completed, bt_stop,
                   bt_exit, files, polled>>
    /\ BtFrame

\* write_results: open(RESULTS_FILE, 'w') and json.dump
BtWriteResults ==
    /\ bt_pc = "results"
    /\ files' = [files EXCEPT !["results"] =
                    FileOf(results(bt_completed, bt_failed, bt_errors), MaxChunks)]
    /\ bt_pc' = IF bt_entry = "generate_images" THEN "output_results" ELSE "exit"
    /\ UNCHANGED <<bt_wp, polled>>
    /\ BtLocals
    /\ BtFrame

\* write_results: open raises (the file stays as it was) or a write raises
\* (the file holds the pieces written so far); sys.exit(1)
BtWriteResultsRaises ==
    /\ bt_pc = "results"
    /\ \/ UNCHANGED files
       \/ \E written \in 0..(MaxChunks - 1) :
             files' = [files EXCEPT !["results"] =
                          FileOf(results(bt_completed, bt_failed, bt_errors), written)]
    /\ bt_stop' = "results"
    /\ bt_exit' = 1
    /\ bt_pc' = "exited"
    /\ UNCHANGED <<bt_entry, bt_slides, bt_wp, bt_i, bt_completed, bt_failed,
                   bt_errors, bt_outcomes, polled>>
    /\ BtFrame

\* generate_images.py: the copy of the results in the output directory; a
\* failure prints a warning
BtSaveToOutputDir ==
    /\ bt_pc = "output_results"
    /\ \/ files' = [files EXCEPT !["output_results"] =
                       FileOf(results(bt_completed, bt_failed, bt_errors), MaxChunks)]
       \/ UNCHANGED files
    /\ bt_pc' = "cleanup"
    /\ UNCHANGED <<bt_wp, polled>>
    /\ BtLocals
    /\ BtFrame

\* generate_images.py: "Cleanup temp files"; an exception of either unlink is
\* passed over
BtCleanup ==
    /\ bt_pc = "cleanup"
    /\ \/ files' = unlink(unlink(files, "progress"), "results")
       \/ files' = unlink(files, "progress")
       \/ UNCHANGED files
    /\ bt_pc' = "exit"
    /\ UNCHANGED <<bt_wp, polled>>
    /\ BtLocals
    /\ BtFrame

\* sys.exit(0 if completed else 1)
BtExit ==
    /\ bt_pc = "exit"
    /\ bt_exit' = exit_status(bt_completed)
    /\ bt_pc' = "exited"
    /\ UNCHANGED <<bt_entry, bt_slides, bt_wp, bt_i, bt_completed, bt_failed,
                   bt_errors, bt_outcomes, bt_stop, files, polled>>
    /\ BtFrame

\* another process reads PROGRESS_FILE
Poll ==
    /\ bt_pc # "idle"
    /\ polled' = read_file(files["progress"])
    /\ UNCHANGED <<bt_pc, bt_wp, files>>
    /\ BtLocals
    /\ BtFrame

BtNext ==
    \/ BtSetupFails
    \/ BtStart
    \/ WpOpen
    \/ WpDump
    \/ WpReplace
    \/ WpRaises
    \/ BtSlideCompleted
    \/ BtSlideFailed
    \/ BtWriteResults
    \/ BtWriteResultsRaises
    \/ BtSaveToOutputDir
    \/ BtCleanup
    \/ BtExit
    \/ Poll

SpecBatch == BtInit /\ [][BtNext]_vars

\* main has reached its for loop
BtStarted == bt_pc \notin {"idle", "start"} /\ bt_stop # "setup"

\* the numbers of the slides whose attempt among the first k ended as success
RECURSIVE NumbersOf(_, _)
NumbersOf(k, success) ==
    IF k = 0 THEN <<>>
    ELSE IF bt_outcomes[k].success = success
         THEN Append(NumbersOf(k - 1, success), bt_slides[bt_outcomes[k].index + 1])
         ELSE NumbersOf(k - 1, success)

\* every attempt so far is of the next slide of the configuration, and
\* completed, failed and errors hold one entry for each attempt, in order
BtTracking ==
    /\ Len(bt_outcomes) <= Len(bt_slides)
    /\ \A k \in 1..Len(bt_outcomes) : bt_outcomes[k].index = k - 1
    /\ bt_failed = NumbersOf(Len(bt_outcomes), FALSE)
    /\ Len(bt_errors) = Len(bt_failed)
    /\ \A k \in 1..Len(bt_errors) : bt_errors[k].slide = bt_failed[k]
    /\ [k \in 1..Len(bt_completed) |-> bt_completed[k].slide] =
          NumbersOf(Len(bt_outcomes), TRUE)
    /\ Len(bt_completed) + Len(bt_failed) = Len(bt_outcomes)

C19_ProgressFileNeverPartial ==
    /\ read_file(files["progress"]) \in {"absent", "snapshot"}
    /\ polled # "partial"

\* the poller has read a whole snapshot of this run while the next one is
\* half written in the temporary file
C19_Witness ==
    /\ polled = "snapshot"
    /\ bt_wp = "opened"
    /\ files[temp_file] # <<>>
    /\ files[temp_file].written \in 1..(MaxChunks - 1)
    /\ files["progress"] # <<>>
    /\ files["progress"].data.status # "completed"
    /\ files["progress"].data # files[temp_file].data

\* C20: after a run that processed all its slides and ended normally the
\* progress file and the results file do not exist, for both entry points.
C20_TransientFilesGoneAfterRun ==
    bt_pc = "exited" /\ bt_stop = "none" =>
       /\ files["progress"] = <<>>
       /\ files["results"] = <<>>

\* ---------------------------------------------------------------------
\* The locators of confluence_adf_utils.py on trees with nested blocks
\* ---------------------------------------------------------------------

\* the most top-level blocks of a page that is searched
MaxTop == 3

tAb == <<"A", " ", "b">>

Emoji == [type |-> "emoji", attrs |-> [shortName |-> ":ok:"]]

\* headings whose text is in one text node, in two, around an emoji, in
\* another case, and a heading inside an expand
LocateBlocks ==
    {Heading(1, <<TextNode(tAB)>>),
     Heading(2, <<TextNode(<<"a">>), TextNode(<<" ", "b">>)>>),
     Heading(2, <<TextNode(<<"a">>), Emoji, TextNode(<<" ", "b">>)>>),
     Heading(2, <<TextNode(tAb)>>),
     Heading(2, <<TextNode(tBC)>>),
     Expand(<<Heading(2, <<TextNode(tAB)>>)>>),
     Paragraph(<<TextNode(tAB)>>)}

LocateDocs == {Doc(bs) : bs \in SeqsUpTo(LocateBlocks, MaxTop)}

\* the query: the empty string, part of a heading, a whole heading, another
\* case, on no page
LocateQueries == {<<>>, <<"a">>, tAB, tAb, <<"z">>}

LocateInit ==
    /\ mu_pc = "start"
    /\ mu_adf \in LocateDocs
    /\ mu_call = <<>>
    /\ mu_out = <<>>
    /\ RtIdle /\ BkIdle /\ StIdle /\ ScIdle /\ EpIdle /\ MdIdle /\ BtIdle

\* find_heading_index(content, heading_text) on the content of the page
LocateHeading ==
    /\ mu_pc = "start"
    /\ \E heading_text \in LocateQueries :
          /\ mu_call' = [fn |-> "find_heading_index", heading_text |-> heading_text]
          /\ mu_out' = [index |-> find_heading_index(mu_adf.content, heading_text),
                        adf |-> mu_adf]
    /\ mu_pc' = "done"
    /\ UNCHANGED mu_adf
    /\ SectionFrame

LocateNext ==
    \/ LocateHeading

SpecLocate == LocateInit /\ [][LocateNext]_vars

\* the texts of the direct text children of node, one after the other
RECURSIVE DirectText(_, _)
DirectText(node, upto) ==
    IF upto = 0 THEN <<>>
    ELSE DirectText(node, upto - 1) \o
         (IF node.content[upto].type = "text" THEN node.content[upto].text ELSE <<>>)

\* q occurs in s as it is written
OccursIn(q, s) ==
    \E from \in 1..(Len(s) + 1) : \E to \in (from - 1)..Len(s) : SubSeq(s, from, to) = q

\* sibling i (1-based) is a heading whose own text holds q
HeadingWith(content, i, q) ==
    /\ content[i].type = "heading"
    /\ OccursIn(q, DirectText(content[i], Len(content[i].content)))

\* C21: find_heading_index looks at the given siblings only: it returns the
\* least index of a sibling that is a heading whose direct text children,
\* concatenated, hold the query in the same case, and None when there is no
\* such sibling; a heading inside another block is never returned.
C21_FirstSiblingHeadingWithText ==
    Called("find_heading_index") =>
       LET content == mu_adf.content
           q == mu_call.heading_text
           found == {i \in 1..Len(content) : HeadingWith(content, i, q)}
       IN  /\ found = {} => mu_out.index = -1
           /\ found # {} =>
                 /\ mu_out.index + 1 \in found
                 /\ \A i \in found : mu_out.index + 1 <= i

\* a page whose first block holds a matching heading inside an expand and
\* whose later heading matches only when its two text nodes are joined
C21_Witness ==
    /\ Called("find_heading_index")
    /\ mu_call.heading_text = tAB
    /\ Len(mu_adf.content) = 3
    /\ mu_adf.content[1].type = "expand"
    /\ mu_adf.content[2] = Heading(2, <<TextNode(tAb)>>)
    /\ Len(mu_adf.content[3].content) > 1
    /\ mu_out.index = 2

\* ---------------------------------------------------------------------
\* The inline adders: add_status.py, add_mention.py, add_emoji.py,
\* add_date.py, add_inline_card.py
\* ---------------------------------------------------------------------

\* {"type": "text", "text": " "}
space_node == [type |-> "text", text |-> <<" ">>]

\* the two inserts put at the place of the text child itself
insert_at_child(content, i, inline_node) ==
    ListInsert(ListInsert(content, i - 1, space_node), i, inline_node)

\* content.insert(i + 1, space_node); content.insert(i + 2, inline_node), for
\* the child at 1-based place i
insert_after_child(content, i, inline_node) ==
    ListInsert(ListInsert(content, i, space_node), i + 1, inline_node)

\* find_and_add_<kind>_recursive: [found, node]; of the values of a node only
\* content holds nodes
RECURSIVE find_and_add_recursive(_, _, _)
find_and_add_recursive(node, search_text, inline_node) ==
    LET content == ContentOf(node)
        hits == IF node.type \in {"paragraph", "listItem"}
                THEN {i \in 1..Len(content) :
                         /\ content[i].type = "text"
                         /\ Contains(IF Has(content[i], "text") THEN content[i].text ELSE <<>>,
                                     search_text)}
                ELSE {}
    IN  IF hits # {}
        THEN LET i == CHOOSE i \in hits : \A j \in hits : i <= j
             IN  [found |-> TRUE,
                  node |-> [node EXCEPT !.content = insert_after_child(content, i, inline_node)]]
        ELSE LET tried == [k \in 1..Len(content) |->
                              find_and_add_recursive(content[k], search_text, inline_node)]
                 found == {k \in 1..Len(content) : tried[k].found}
             IN  IF found = {} THEN [found |-> FALSE, node |-> node]
                 ELSE LET k == CHOOSE k \in found : \A j \in found : k <= j
                      IN  [found |-> TRUE,
                           node |-> [node EXCEPT !.content[k] = tried[k].node]]

status_node(status_text, status_color, hex) ==
    [type |-> "status",
     attrs |-> [text |-> status_text, color |-> status_color, localId |-> <<"status-", hex>>]]

mention_node(user_id, display_name, hex) ==
    [type |-> "mention",
     attrs |-> [id |-> user_id,
                text |-> <<"@">> \o (IF display_name # <<>> THEN display_name ELSE user_id),
                accessLevel |-> <<>>, localId |-> <<"mention-", hex>>]]

\* emoji_shortname.strip(":")
StripColons(s) ==
    LET keep == {i \in 1..Len(s) : s[i] # ":"}
    IN  IF keep = {} THEN <<>>
        ELSE SubSeq(s, CHOOSE i \in keep : \A j \in keep : i <= j,
                       CHOOSE i \in keep : \A j \in keep : i >= j)

emoji_node(emoji_shortname, hex) ==
    [type |-> "emoji",
     attrs |-> [shortName |-> emoji_shortname, id |-> StripColons(emoji_shortname),
                text |-> emoji_shortname, localId |-> <<"emoji-", hex>>]]

\* str(int(datetime.fromisoformat(date_str).timestamp() * 1000)); <<>> when
\* fromisoformat raises ValueError
Timestamps == [d \in {<<"2024-01-02">>, <<"soon">>} |->
                  IF d = <<"2024-01-02">> THEN <<"1704153600000">> ELSE <<>>]

date_node(timestamp, hex) ==
    [type |-> "date", attrs |-> [timestamp |-> timestamp, localId |-> <<"date-", hex>>]]

card_node(url, hex) ==
    [type |-> "inlineCard", attrs |-> [url |-> url, localId |-> <<"card-", hex>>]]

\* add_status, add_mention, add_emoji, add_inline_card: [success, adf]
add_inline(adf, search_text, inline_node) ==
    LET r == find_and_add_recursive(adf, search_text, inline_node)
    IN  [success |-> r.found, adf |-> r.node]

\* add_date: an invalid date returns False before the tree is looked at
add_date(adf, search_text, date_str, hex) ==
    IF Timestamps[date_str] = <<>> THEN [success |-> FALSE, adf |-> adf]
    ELSE add_inline(adf, search_text, date_node(Timestamps[date_str], hex))

\* ---------------------------------------------------------------------
\* The insertion mutators on pages with headings, paragraphs, macros,
\* lists, tables and expands
\* ---------------------------------------------------------------------

\* the most top-level blocks of a page that is mutated
MaxParts == 2

\* a list item that holds a paragraph and, behind it, a text of its own
LooseItem == [type |-> "listItem",
              content |-> <<Paragraph(<<TextNode(tAB)>>), TextNode(tAB)>>]

\* an expand that has no content field
EmptyExpand == [type |-> "expand", attrs |-> [title |-> <<"more">>]]

MutatorBlocks ==
    {Heading(2, <<TextNode(tAB)>>),
     Heading(1, <<TextNode(tBC)>>),
     Paragraph(<<TextNode(tBC), TextNode(tAB)>>),
     Panel(<<Paragraph(<<TextNode(tAB)>>)>>),
     ListOf("bulletList", <<TextNode(tAB), TextNode(tBC)>>),
     [type |-> "bulletList", content |-> <<LooseItem>>],
     Table(<<Row(<<Cell("tableHeader", <<<<"Name">>>>)>>),
             Row(<<Cell("tableCell", <<tGitHub>>)>>)>>),
     [type |-> "expand", attrs |-> [title |-> <<"more">>],
      content |-> <<Paragraph(<<TextNode(tBC)>>)>>],
     EmptyExpand}

MutatorDocs == {Doc(bs) : bs \in SeqsUpTo(MutatorBlocks, MaxParts)}

\* --search-text: in a paragraph, in several, nowhere
SearchTexts == {tAB, <<"b">>, <<"z">>}

MutatorInit ==
    /\ mu_pc = "start"
    /\ mu_adf \in MutatorDocs
    /\ mu_call = <<>>
    /\ mu_out = <<>>
    /\ RtIdle /\ BkIdle /\ StIdle /\ ScIdle /\ EpIdle /\ MdIdle /\ BtIdle

\* add_status(adf, search_text, status_text, status_color)
AddStatus ==
    /\ mu_pc = "start"
    /\ \E search_text \in SearchTexts, status_color \in {"neutral", "green"}, hex \in RandomHex :
          LET node == status_node(<<"TODO">>, status_color, hex)
          IN  /\ mu_call' = [fn |-> "add_status", search_text |-> search_text, inline_node |-> node]
              /\ mu_out' = add_inline(mu_adf, search_text, node)
    /\ mu_pc' = "done"
    /\ UNCHANGED mu_adf
    /\ SectionFrame

\* add_mention(adf, search_text, user_id, display_name)
AddMention ==
    /\ mu_pc = "start"
    /\ \E search_text \in SearchTexts, display_name \in {<<>>, <<"Ann">>}, hex \in RandomHex :
          LET node == mention_node(<<"u1">>, display_name, hex)
          IN  /\ mu_call' = [fn |-> "add_mention", search_text |-> search_text, inline_node |-> node]
              /\ mu_out' = add_inline(mu_adf, search_text, node)
    /\ mu_pc' = "done"
    /\ UNCHANGED mu_adf
    /\ SectionFrame

\* add_emoji(adf, search_text, emoji_shortname)
AddEmoji ==
    /\ mu_pc = "start"
    /\ \E search_text \in SearchTexts, hex \in RandomHex :
          LET node == emoji_node(<<":", "ok", ":">>, hex)
          IN  /\ mu_call' = [fn |-> "add_emoji", search_text |-> search_text, inline_node |-> node]
              /\ mu_out' = add_inline(mu_adf, search_text, node)
    /\ mu_pc' = "done"
    /\ UNCHANGED mu_adf
    /\ SectionFrame

\* add_date(adf, search_text, date_str)
AddDate ==
    /\ mu_pc = "start"
    /\ \E search_text \in SearchTexts, date_str \in DOMAIN Timestamps, hex \in RandomHex :
          LET node == date_node(Timestamps[date_str], hex)
          IN  /\ mu_call' = [fn |-> "add_date", search_text |-> search_text, inline_node |-> node]
              /\ mu_out' = add_date(mu_adf, search_text, date_str, hex)
    /\ mu_pc' = "done"
    /\ UNCHANGED mu_adf
    /\ SectionFrame

\* add_inline_card(adf, search_text, url)
AddInlineCard ==
    /\ mu_pc = "start"
    /\ \E search_text \in SearchTexts, hex \in RandomHex :
          LET node == card_node(<<"https://x">>, hex)
          IN  /\ mu_call' = [fn |-> "add_inline_card", search_text |-> search_text, inline_node |-> node]
              /\ mu_out' = add_inline(mu_adf, search_text, node)
    /\ mu_pc' = "done"
    /\ UNCHANGED mu_adf
    /\ SectionFrame

\* the paragraph the block adders put their text in
text_paragraph(text, hex) ==
    [type |-> "paragraph", attrs |-> [localId |-> <<"para-", hex>>],
     content |-> <<TextNode(text)>>]

\* add_panel: [success, adf]
add_panel(adf, after_heading, panel_type, content_text, hex) ==
    LET content == ContentOf(adf)
        heading_idx == find_heading_index(content, after_heading)
        panel == [type |-> "panel",
                  attrs |-> [panelType |-> panel_type, localId |-> <<"panel-", hex>>],
                  content |-> <<text_paragraph(content_text, hex)>>]
    IN  IF heading_idx = -1 THEN [success |-> FALSE, adf |-> adf]
        ELSE [success |-> TRUE,
              adf |-> [adf EXCEPT !.content = ListInsert(content, heading_idx + 1, panel)]]

\* add_blockquote: [success, adf]; after_heading <<>> is None or ""
add_blockquote(adf, quote_text, after_heading, hex) ==
    LET content == ContentOf(adf)
        blockquote_node == [type |-> "blockquote",
                            attrs |-> [localId |-> <<"blockquote-", hex>>],
                            content |-> <<text_paragraph(quote_text, hex)>>]
        heading_idx == find_heading_index(content, after_heading)
    IN  IF after_heading # <<>>
        THEN IF heading_idx = -1 THEN [success |-> FALSE, adf |-> adf]
             ELSE [success |-> TRUE,
                   adf |-> [adf EXCEPT !.content =
                               ListInsert(content, heading_idx + 1, blockquote_node)]]
        ELSE [success |-> TRUE, adf |-> [adf EXCEPT !.content = Append(content, blockquote_node)]]

find_list_recursive(adf, heading_text, list_type) ==
    find_after_heading(adf, heading_text, list_type)

\* add_list_item: [success, adf]
add_list_item(adf, heading_text, item_text, insert_position, list_type, hex) ==
    LET target_type == IF list_type = "bullet" THEN "bulletList" ELSE "orderedList"
        list_node == find_list_recursive(adf, heading_text, target_type)
        new_item == [type |-> "listItem", attrs |-> [localId |-> <<"item-", hex>>],
                     content |-> <<text_paragraph(item_text, hex)>>]
        old == NodeAtPath(adf, list_node.path)
    IN  IF ~list_node.found THEN [success |-> FALSE, adf |-> adf]
        ELSE [success |-> TRUE,
              adf |-> ReplaceAtPath(adf, list_node.path,
                         [old EXCEPT !.content =
                             IF insert_position = "end" THEN Append(old.content, new_item)
                             ELSE ListInsert(old.content, 0, new_item)])]

\* find_expand_by_title: find_node_recursive with matches_title
RECURSIVE find_expand_by_title(_, _)
find_expand_by_title(node, expand_title) ==
    IF /\ node.type = "expand"
       /\ (IF "title" \in DOMAIN AttrsOf(node) THEN AttrsOf(node).title ELSE <<>>) = expand_title
    THEN [found |-> TRUE, path |-> <<>>]
    ELSE LET kids == ContentOf(node)
         IN  FirstFound([i \in 1..Len(kids) |->
                 LET r == find_expand_by_title(kids[i], expand_title)
                 IN  [found |-> r.found, path |-> <<i>> \o r.path]])

\* add_nested_expand: [success, adf]
add_nested_expand(adf, parent_expand_title, nested_title, nested_content, hex) ==
    LET parent_expand == find_expand_by_title(adf, parent_expand_title)
        nested_expand_node ==
            [type |-> "nestedExpand",
             attrs |-> [title |-> nested_title, localId |-> <<"nestedexpand-", hex>>],
             content |-> <<text_paragraph(nested_content, hex)>>]
        old == NodeAtPath(adf, parent_expand.path)
        kept == [k \in DOMAIN old \cup {"content"} |-> IF k = "content" THEN <<>> ELSE old[k]]
    IN  IF ~parent_expand.found THEN [success |-> FALSE, adf |-> adf]
        ELSE [success |-> TRUE,
              adf |-> ReplaceAtPath(adf, parent_expand.path,
                         [kept EXCEPT !.content = Append(ContentOf(old), nested_expand_node)])]

\* add_rule(adf, after_heading)
AddRule ==
    /\ mu_pc = "start"
    /\ \E after_heading \in {<<>>, tAB, <<"z">>}, local_id \in LocalIds :
          /\ mu_call' = [fn |-> "add_rule", after_heading |-> after_heading]
          /\ mu_out' = add_rule(mu_adf, after_heading, local_id)
    /\ mu_pc' = "done"
    /\ UNCHANGED mu_adf
    /\ SectionFrame

\* add_panel(adf, after_heading, panel_type, content_text)
AddPanel ==
    /\ mu_pc = "start"
    /\ \E after_heading \in {tAB, tBC, <<"z">>}, panel_type \in {"info", "warning"}, hex \in RandomHex :
          /\ mu_call' = [fn |-> "add_panel", after_heading |-> after_heading]
          /\ mu_out' = add_panel(mu_adf, after_heading, panel_type, tInScope, hex)
    /\ mu_pc' = "done"
    /\ UNCHANGED mu_adf
    /\ SectionFrame

\* add_blockquote(adf, quote_text, after_heading)
AddBlockquote ==
    /\ mu_pc = "start"
    /\ \E after_heading \in {<<>>, tAB, <<"z">>}, hex \in RandomHex :
          /\ mu_call' = [fn |-> "add_blockquote", after_heading |-> after_heading]
          /\ mu_out' = add_blockquote(mu_adf, tInScope, after_heading, hex)
    /\ mu_pc' = "done"
    /\ UNCHANGED mu_adf
    /\ SectionFrame

\* add_list_item(adf, heading_text, item_text, insert_position, list_type)
AddListItem ==
    /\ mu_pc = "start"
    /\ \E heading_text \in {<<>>, tAB, <<"z">>}, insert_position \in {"start", "end"},
          list_type \in {"bullet", "numbered"}, hex \in RandomHex :
          /\ mu_call' = [fn |-> "add_list_item", heading_text |-> heading_text,
                         insert_position |-> insert_position, list_type |-> list_type]
          /\ mu_out' = add_list_item(mu_adf, heading_text, tInScope, insert_position,
                                    list_type, hex)
    /\ mu_pc' = "done"
    /\ UNCHANGED mu_adf
    /\ SectionFrame

\* add_nested_expand(adf, parent_expand_title, nested_title, nested_content)
AddNestedExpand ==
    /\ mu_pc = "start"
    /\ \E parent_expand_title \in {<<"more">>, <<"z">>}, hex \in RandomHex :
          /\ mu_call' = [fn |-> "add_nested_expand", parent_expand_title |-> parent_expand_title]
          /\ mu_out' = add_nested_expand(mu_adf, parent_expand_title, <<"new">>, tInScope, hex)
    /\ mu_pc' = "done"
    /\ UNCHANGED mu_adf
    /\ SectionFrame

MutatorNext ==
    \/ InsertSection
    \/ InsertTableRow
    \/ AddRule
    \/ AddPanel
    \/ AddBlockquote
    \/ AddListItem
    \/ AddNestedExpand
    \/ AddStatus
    \/ AddMention
    \/ AddEmoji
    \/ AddDate
    \/ AddInlineCard

SpecMutators == MutatorInit /\ [][MutatorNext]_vars

InlineAdders == {"add_status", "add_mention", "add_emoji", "add_date", "add_inline_card"}

\* the places (paths of 1-based child indices) of the text nodes that hold q
\* and are direct children of a paragraph or list item
RECURSIVE TextPlaces(_, _)
TextPlaces(node, q) ==
    LET kids == ContentOf(node)
    IN  {<<i>> : i \in {i \in 1..Len(kids) :
                          /\ node.type \in {"paragraph", "listItem"}
                          /\ kids[i].type = "text"
                          /\ OccursIn(q, kids[i].text)}}
        \cup UNION {{<<i>> \o p : p \in TextPlaces(kids[i], q)} : i \in 1..Len(kids)}

Parent(p) == SubSeq(p, 1, Len(p) - 1)

IsProperPrefix(a, b) == Len(a) < Len(b) /\ SubSeq(b, 1, Len(a)) = a

\* a comes before b in the order of the places where they first differ
LexLess(a, b) ==
    \E k \in 1..Len(a) :
       /\ k <= Len(b)
       /\ SubSeq(a, 1, k - 1) = SubSeq(b, 1, k - 1)
       /\ a[k] < b[k]

\* place p is met before place r: the parent of p is visited first in
\* pre-order, or they share the parent and p is the earlier child
MetBefore(p, r) ==
    IF Parent(p) = Parent(r) THEN p[Len(p)] < r[Len(r)]
    ELSE IF IsProperPrefix(Parent(p), Parent(r)) THEN TRUE
    ELSE IF IsProperPrefix(Parent(r), Parent(p)) THEN FALSE
    ELSE LexLess(Parent(p), Parent(r))

\* the tree with two nodes put in right behind the child at place p
WithTwoBehind(adf, p, first, second) ==
    LET parent == NodeAtPath(adf, Parent(p))
        i == p[Len(p)]
    IN  ReplaceAtPath(adf, Parent(p),
           [parent EXCEPT !.content =
               SubSeq(parent.content, 1, i) \o <<first, second>> \o
               SubSeq(parent.content, i + 1, Len(parent.content))])

\* a date that cannot be read makes add_date return before it searches
Searched == mu_call.fn # "add_date" \/ mu_call.inline_node.attrs.timestamp # <<>>

\* C22: an inline adder takes the first paragraph or list item, in pre-order
\* over the whole tree and inside macros too, that has a direct text child
\* holding the search text, and puts a one-space text node and the inline
\* node right behind that child; one place only is changed, and nothing is
\* changed when no place matches.
C22_InlineAddedBehindFirstMatch ==
    mu_pc = "done" /\ mu_call.fn \in InlineAdders /\ Searched =>
       LET places == TextPlaces(mu_adf, mu_call.search_text)
       IN  /\ places = {} => ~mu_out.success /\ mu_out.adf = mu_adf
           /\ places # {} =>
                 LET p == CHOOSE p \in places : \A r \in places \ {p} : MetBefore(p, r)
                 IN  /\ mu_out.success
                     /\ mu_out.adf = WithTwoBehind(mu_adf, p, [type |-> "text", text |-> <<" ">>],
                                                   mu_call.inline_node)

\* the text is in a paragraph inside a panel and in a later paragraph, whose
\* second child holds it; the panel's paragraph is the one that changes
C22_Witness ==
    /\ mu_pc = "done"
    /\ mu_call.fn = "add_mention"
    /\ mu_call.search_text = tAB
    /\ Len(mu_adf.content) = 2
    /\ mu_adf.content[1] = Panel(<<Paragraph(<<TextNode(tAB)>>)>>)
    /\ mu_adf.content[2] = Paragraph(<<TextNode(tBC), TextNode(tAB)>>)
    /\ mu_out.success
    /\ Len(mu_out.adf.content[1].content[1].content) = 3
    /\ mu_out.adf.content[2] = mu_adf.content[2]

InsertionMutators ==
    {"insert_section", "insert_table_row", "add_rule", "add_panel", "add_blockquote",
     "add_list_item", "add_nested_expand"} \cup InlineAdders

\* the fields of a node other than its children
OwnFields(node) == [k \in DOMAIN node \ {"content"} |-> node[k]]

\* old is still there in new: the same node with its own fields as they were,
\* and each of its children still there among the children of new, in the
\* order they had
RECURSIVE StillThere(_, _), AllStillThere(_, _)
StillThere(old, new) ==
    /\ OwnFields(old) = OwnFields(new)
    /\ AllStillThere(ContentOf(old), ContentOf(new))

AllStillThere(olds, news) ==
    IF olds = <<>> THEN TRUE
    ELSE IF news = <<>> THEN FALSE
    ELSE \/ StillThere(Head(olds), Head(news)) /\ AllStillThere(Tail(olds), Tail(news))
         \/ AllStillThere(olds, Tail(news))

\* the number of nodes of a tree
RECURSIVE NodeCount(_)
NodeCount(node) ==
    LET kids == ContentOf(node)
        RECURSIVE Sum(_)
        Sum(k) == IF k = 0 THEN 0 ELSE NodeCount(kids[k]) + Sum(k - 1)
    IN  1 + Sum(Len(kids))

\* C23: an insertion mutator only adds nodes: every node of the page is still
\* there afterwards with its fields as they were, and the children a node had
\* keep their relative order.
C23_MutatorsOnlyAddNodes ==
    mu_pc = "done" /\ mu_call.fn \in InsertionMutators =>
       /\ StillThere(mu_adf, mu_out.adf)
       /\ NodeCount(mu_out.adf) >= NodeCount(mu_adf)
       /\ ~mu_out.success => mu_out.adf = mu_adf

\* an item was put at the start of a list of two items behind a heading
C23_Witness ==
    /\ mu_pc = "done"
    /\ mu_call.fn = "add_list_item"
    /\ mu_call.insert_position = "start"
    /\ mu_call.heading_text = tAB
    /\ mu_out.success
    /\ Len(mu_adf.content) = 2
    /\ mu_adf.content[2].type = "bulletList"
    /\ Len(mu_adf.content[2].content) = 2
    /\ Len(mu_out.adf.content[2].content) = 3
    /\ SubSeq(mu_out.adf.content[2].content, 2, 3) = mu_adf.content[2].content

\* ---------------------------------------------------------------------
\* ADFValidator.validate_adf on well and badly formed trees
\* ---------------------------------------------------------------------

\* the most children of the root of a tree that is validated
MaxNodes == 2

\* nodes as they should be and nodes with one fault: a content or a text that
\* is no list or string, a text or attrs that is missing, a type that is
\* missing, and a fault one level down
ValidateBlocks ==
    {Paragraph(<<TextNode(tAB)>>),
     Panel(<<Paragraph(<<TextNode(tAB)>>)>>),
     [type |-> "paragraph", content_scalar |-> "oops"],
     [type |-> "paragraph"],
     [type |-> "text"],
     [type |-> "text", text_scalar |-> 5],
     [type |-> "panel", content |-> <<Paragraph(<<TextNode(tAB)>>)>>],
     [type |-> "extension"],
     [content |-> <<TextNode(tAB)>>],
     Paragraph(<<[type |-> "text"]>>),
     Panel(<<[type |-> "paragraph", content_scalar |-> "oops"]>>)}

\* the root: a doc, another type, no type; a list, no list, no content
ValidateDocs ==
    {Doc(bs) : bs \in SeqsUpTo(ValidateBlocks, MaxNodes)}
    \cup {[type |-> "page", content |-> bs] : bs \in SeqsUpTo(ValidateBlocks, 1)}
    \cup {[type |-> "doc", content |-> <<>>], [type |-> "doc"], [content |-> <<>>],
          [type |-> "doc", content_scalar |-> "oops"]}

ValidateInit ==
    /\ mu_pc = "start"
    /\ mu_adf \in ValidateDocs
    /\ mu_call = <<>>
    /\ mu_out = <<>>
    /\ RtIdle /\ BkIdle /\ StIdle /\ ScIdle /\ EpIdle /\ MdIdle /\ BtIdle

\* ADFValidator.validate_adf(adf)
ValidateAdf ==
    /\ mu_pc = "start"
    /\ mu_call' = [fn |-> "validate_adf"]
    /\ mu_out' = [errors |-> validate_adf(mu_adf), adf |-> mu_adf]
    /\ mu_pc' = "done"
    /\ UNCHANGED mu_adf
    /\ SectionFrame

ValidateNext ==
    \/ ValidateAdf

SpecValidate == ValidateInit /\ [][ValidateNext]_vars

\* every node of the tree, the root too, at any depth
RECURSIVE NodesOf(_)
NodesOf(node) ==
    {node} \cup (IF "content" \in DOMAIN node
                 THEN UNION {NodesOf(node.content[i]) : i \in 1..Len(node.content)}
                 ELSE {})

\* what the claim asks of a tree
WellFormed(adf) ==
    /\ "type" \in DOMAIN adf /\ adf.type = "doc"
    /\ "content" \in DOMAIN adf
    /\ \A n \in NodesOf(adf) :
          /\ "content_scalar" \notin DOMAIN n
          /\ ("type" \in DOMAIN n /\ n.type = "text") => "text" \in DOMAIN n
          /\ ("type" \in DOMAIN n /\ n.type \in
                {"inlineExtension", "extension", "bodiedExtension", "panel", "expand"})
                => "attrs" \in DOMAIN n

\* C24: validate_adf returns no error if and only if the root is a doc with a
\* list as content, the content of every node at any depth is a list, every
\* text node has a string as text, and every macro node has attrs; the tree
\* it was given is not changed.
C24_NoErrorsIffWellFormed ==
    Called("validate_adf") =>
       /\ mu_out.errors = <<>> <=> WellFormed(mu_adf)
       /\ mu_out.adf = mu_adf

(***************************************************************************)
(* The leaves extract_text_nodes returns, against the tree                 *)
(***************************************************************************)
\* the 0-based child indices a leaf path runs through, from the root down
IndicesOf(path) == [k \in 1..((Len(path) - 1) \div 2) |-> ToInt(path[2 * k])]

\* the node the path of a leaf addresses
LeafAt(adf, path) == Resolve(adf, FALSE, SubSeq(path, 1, Len(path) - 1)).val

\* the node at a is visited before the node at b in document pre-order
PreOrderBefore(a, b) == IsProperPrefix(a, b) \/ LexLess(a, b)

\* C25: every leaf extract_text_nodes returns has a path that leads to a text
\* node of the tree holding the text of the leaf, the text is not empty or
\* whitespace only, the paths are pairwise distinct, and the leaves are
\* listed in document pre-order
C25_LeavesAddressTheirTextInPreOrder ==
    rt_pc = "extracted" =>
       /\ \A k \in 1..Len(rt_nodes) :
             /\ ResolvesToTextLeaf(rt_adf, rt_nodes[k].path)
             /\ LeafAt(rt_adf, rt_nodes[k].path).text = rt_nodes[k].text
             /\ Strip(rt_nodes[k].text) # <<>>
       /\ \A j, k \in 1..Len(rt_nodes) :
             j < k =>
                /\ rt_nodes[j].path # rt_nodes[k].path
                /\ PreOrderBefore(IndicesOf(rt_nodes[j].path),
                                  IndicesOf(rt_nodes[k].path))

\* a page has been extracted with macro bodies editable, and leaves of
\* different depths came back, one of them from inside a macro
C25_Witness ==
    /\ rt_pc = "extracted"
    /\ rt_include
    /\ \E j, k \in 1..Len(rt_nodes) :
          /\ j < k
          /\ Len(rt_nodes[j].path) # Len(rt_nodes[k].path)
          /\ IsMacro(rt_adf.content[IndicesOf(rt_nodes[k].path)[1] + 1])

(***************************************************************************)
(* What apply_text_changes leaves alone                                    *)
(***************************************************************************)
\* the tree with the text of every text node blanked: types, attrs, marks,
\* the number of children and their order are what is left
RECURSIVE Shape(_)
Shape(node) ==
    [f \in DOMAIN node |->
        IF f = "content"
        THEN [i \in 1..Len(node.content) |-> Shape(node.content[i])]
        ELSE IF f = "text" /\ TypeOf(node) = "text" THEN <<>>
        ELSE node[f]]

\* the places of all nodes of a tree, as sequences of child positions
RECURSIVE PlacesOf(_)
PlacesOf(node) ==
    LET kids == ContentOf(node)
    IN  {<<>>} \cup UNION {{<<i>> \o p : p \in PlacesOf(kids[i])} : i \in 1..Len(kids)}

\* the path extract_text_nodes gives the text node at a place
RECURSIVE PathTo(_)
PathTo(p) ==
    IF p = <<>> THEN <<"text">>
    ELSE <<"content", ToStr(Head(p) - 1)>> \o PathTo(Tail(p))

\* some change of the list is addressed to the text node at place p
Addressed(changes, p) == \E k \in 1..Len(changes) : changes[k].path = PathTo(p)

\* the place lies in the subtree of a macro node
InsideMacro(adf, p) ==
    \E n \in 0..Len(p) : IsMacro(NodeAtPath(adf, SubSeq(p, 1, n)))

\* C26: when the changes were computed from the leaves of the tree they are
\* applied to, apply_text_changes raises nothing and returns a tree that
\* differs from its argument only in the text of text nodes a change is
\* addressed to: types, attrs, child counts and order are the same, and in
\* Safe mode every node inside a macro container is as it was
C26_PatchTouchesOnlyAddressedTexts ==
    (rt_pc = "patched" /\ rt_target = rt_adf) =>
       /\ ~rt_out.raised
       /\ Shape(rt_out.result) = Shape(rt_adf)
       /\ \A p \in PlacesOf(rt_adf) :
             (\/ ~Addressed(rt_changes, p)
              \/ (~rt_include /\ InsideMacro(rt_adf, p)))
             => OwnFields(NodeAtPath(rt_out.result, p)) = OwnFields(NodeAtPath(rt_adf, p))

\* a Safe-mode edit of a page that has a macro with text in it has been
\* patched: a text outside the macro was changed
C26_Witness ==
    /\ rt_pc = "patched"
    /\ rt_target = rt_adf
    /\ ~rt_include
    /\ rt_changes # <<>>
    /\ rt_out.result # rt_adf
    /\ \E p \in PlacesOf(rt_adf) :
          InsideMacro(rt_adf, p) /\ NodeAtPath(rt_adf, p).type = "text"

(***************************************************************************)
(* edit_page: the backup before a write, the rollback, the results         *)
(***************************************************************************)
\* create_backup has returned in the invocation under way
BackedUp == ep_backup_file.bound /\ ~ep_backup_file.none

\* the invocation under way is past Step 3
PastBackup == ep_pc \in {"diff", "write", "handler", "rollback_write"}

\* C27: with macro bodies editable edit_page goes past the backup step, and
\* sends a request to the store, only after create_backup has returned in the
\* same invocation, and when create_backup failed the invocation ends with
\* the error result and no request sent; with macro bodies not editable a
\* failed create_backup leaves backup_file None and the edit goes on
C27_AdvancedWritesOnlyAfterBackup ==
    /\ ep_include /\ (PastBackup \/ EpRequests # {}) => BackedUp
    /\ ep_include /\ ep_pc = "done" /\ ~BackedUp =>
          /\ ep_result.status = "error"
          /\ ep_result.error = "Backup creation failed"
          /\ EpRequests = {}
    /\ ep_backup_file = NoneFile =>
          /\ ~ep_include
          /\ PastBackup \/ ep_pc = "done"
          /\ ep_pc = "done" => ep_result.status # "error"

\* an invocation with macro bodies editable has ended on the failed backup,
\* with the error result and without a request
C27_Witness ==
    /\ ep_pc = "done"
    /\ ep_include
    /\ ~ep_backup_file.bound
    /\ ep_result.status = "error"
    /\ ep_result.error = "Backup creation failed"
    /\ EpRequests = {}

\* C28: every request the handler of edit_page sends writes the content of
\* the backup create_backup made in the same invocation
C28_AutoRollbackWritesOwnBackup ==
    \A i \in 1..Len(requests) :
       requests[i].by = "auto_rollback" =>
          /\ BackedUp
          /\ ep_backup_data.timestamp = ep_backup_file.name
          /\ requests[i].body = ep_adf

\* C29: a call of edit_page that has ended has returned a result whose status
\* is success, no_changes, error, rolled_back or rollback_failed; no
\* exception leaves the call
C29_EditPageAlwaysReturnsResult ==
    ep_pc = "done" /\ ep_result # NoResult =>
       ep_result.status \in
          {"success", "no_changes", "error", "rolled_back", "rollback_failed"}

\* ---------------------------------------------------------------------
\* find_table_recursive and find_list_recursive by heading
\* ---------------------------------------------------------------------
OneRowTable == Table(<<Row(<<Cell("tableCell", <<tGitHub>>)>>)>>)

\* two headings, a paragraph, a table, a bullet list, a table in an expand
\* and an ordered list in a panel
FindBlocks ==
    {Heading(2, <<TextNode(tAB)>>),
     Heading(2, <<TextNode(tBC)>>),
     Paragraph(<<TextNode(tAB)>>),
     OneRowTable,
     ListOf("bulletList", <<TextNode(tAB)>>),
     Expand(<<OneRowTable>>),
     Panel(<<ListOf("orderedList", <<TextNode(tBC)>>)>>)}

FindDocs == {Doc(bs) : bs \in SeqsUpTo(FindBlocks, MaxTop)}

\* the heading asked for: one of the page's, or one on no page
FindHeadings == {tAB, tBC, <<"z">>}

FindInit ==
    /\ mu_pc = "start"
    /\ mu_adf \in FindDocs
    /\ mu_call = <<>>
    /\ mu_out = <<>>
    /\ RtIdle /\ BkIdle /\ StIdle /\ ScIdle /\ EpIdle /\ MdIdle /\ BtIdle

\* find_table_recursive(adf, heading_text)
FindTable ==
    /\ mu_pc = "start"
    /\ \E heading_text \in FindHeadings :
          /\ mu_call' = [fn |-> "find_table_recursive", heading_text |-> heading_text,
                         node_type |-> "table"]
          /\ mu_out' = find_table_recursive(mu_adf, heading_text)
    /\ mu_pc' = "done"
    /\ UNCHANGED mu_adf
    /\ SectionFrame

\* find_list_recursive(adf, heading_text, list_type)
FindList ==
    /\ mu_pc = "start"
    /\ \E heading_text \in FindHeadings, list_type \in {"bulletList", "orderedList"} :
          /\ mu_call' = [fn |-> "find_list_recursive", heading_text |-> heading_text,
                         node_type |-> list_type]
          /\ mu_out' = find_list_recursive(mu_adf, heading_text, list_type)
    /\ mu_pc' = "done"
    /\ UNCHANGED mu_adf
    /\ SectionFrame

FindNext ==
    \/ FindTable
    \/ FindList

SpecFind == FindInit /\ [][FindNext]_vars

\* the 1-based index of the first top-level heading whose text holds q, 0
\* if there is none
MatchedHeading(content, q) ==
    LET found == {i \in 1..Len(content) : HeadingWith(content, i, q)}
    IN  IF found = {} THEN 0 ELSE CHOOSE i \in found : \A j \in found : i <= j

\* the top-level siblings of the section heading h introduces: those behind
\* it, up to the next top-level heading
SectionOf(content, h) ==
    {i \in (h + 1)..Len(content) : \A j \in (h + 1)..i : content[j].type # "heading"}

\* the node is, or has somewhere in it, a node of the type
Holds(node, node_type) ==
    \E p \in PlacesOf(node) : NodeAtPath(node, p).type = node_type

\* C30: find_table_recursive and find_list_recursive called with a heading
\* return a node of the type asked for that is, or lies in, a top-level
\* sibling of the section of the first matching heading, with no other
\* top-level heading in between, and None when there is no matching heading
\* or its section has no such node
C30_FoundInSectionOfHeading ==
    (Called("find_table_recursive") \/ Called("find_list_recursive")) =>
       LET content == mu_adf.content
           h == MatchedHeading(content, mu_call.heading_text)
           holders == {i \in SectionOf(content, h) : Holds(content[i], mu_call.node_type)}
       IN  /\ (h = 0 \/ holders = {}) => ~mu_out.found
           /\ mu_out.found =>
                 /\ NodeAtPath(mu_adf, mu_out.path).type = mu_call.node_type
                 /\ mu_out.path[1] \in SectionOf(content, h)

====
